---------------------------- MODULE Spec2Model ----------------------------
(***************************************************************************)
(* A model of the question-answering core of the Ads Reporting Copilot:    *)
(* the query classifier (is_data_retrieval_query), the translator          *)
(* (generate_sql_from_nl), the executor (execute_sql_query over            *)
(* CampaignDatabase.execute_sql and the pandasql fallback), query_with_sql *)
(* and the router process_query.                                           *)
(*                                                                         *)
(* Text is modelled as a sequence of one-character strings, so that        *)
(* lower(), upper(), strip(), substring tests and the regular expressions  *)
(* of the source are computed character by character.                      *)
(***************************************************************************)
EXTENDS Integers, Sequences, FiniteSets, TLC

VARIABLES
    pc,            \* position of the operation in progress
    words,         \* the words the question was typed from (input)
    question,      \* the question text handed to the code
    is_retrieval,  \* process_query: is_retrieval
    api_key,       \* get_api_key() returned a key
    response,      \* what model.generate_content gave the translator:
                   \* None (it raised) or Some(tokens of the text)
    sql_query,     \* generate_sql_from_nl's return value, None or Some(text)
    translator_calls, \* calls of model.generate_content by generate_sql_from_nl
    prompt_reads,  \* statements the store ran for the translator's prompt
    executed,      \* statements an engine (store or pandasql) has run
    db_result,     \* CampaignDatabase.execute_sql's return pair, or None
    store_found,   \* how execute_sql_query found the store, or None
    fallback_ran,  \* execute_sql_query reached sqldf
    exec_result,   \* execute_sql_query's return pair, or None
    sql_result,    \* query_with_sql's return pair, or None
    summary_calls, \* calls of create_compact_summary by process_query
    query_gemini_calls, \* calls of query_gemini by process_query
    narrative_calls,    \* calls of model.generate_content by query_gemini
    narrative_question, \* the question handed to query_gemini, or None
    narrative_result,   \* how query_gemini ended, or None
    returned,      \* process_query's return pair, or None
    table,         \* the persisted table campaign_data of the database file:
                   \* None, or Some([data, filled]): whose rows, inserted or not
    session_df,    \* st.session_state.df / the df argument: None or Some(dataset)
    last_store,    \* the last store_dataframe call: its dataset and what it
                   \* returned, or None
    ever_stored,   \* the datasets whose rows the table has held so far
    read_data,     \* the dataset the engine that gave the result read, or None
    writer_pc,     \* a session inside store_dataframe's to_sql: its position
    writer_df,     \* the dataset that session writes, or None
    reader_pc,     \* another session inside execute_sql: its position
    reader_obs,    \* what that session's execute_sql has seen so far, or None
    fn_call,       \* a function of the metric engine or the breakdown applied
                   \* on its own: its name and arguments, or None
    fn_result,     \* what it returned, or None
    summary_args,  \* the df, column_mapping and store create_compact_summary
                   \* is called with, or None
    summary_df,    \* that df as it is now, or None
    summaries,     \* what the calls of create_compact_summary returned so far
    sqlalchemy_available, \* database.SQLALCHEMY_AVAILABLE once the module is
                   \* imported: None, or Some(TRUE or FALSE)
    self_conn,     \* the CampaignDatabase instance's self.conn is a connection
    unreleased,    \* connections and engines that finished store operations
                   \* opened and let go of without close() or dispose()
    store_op       \* the last store operation: what it opened and what it
                   \* released, or None

vars == <<pc, words, question, is_retrieval, api_key, response, sql_query,
          translator_calls, prompt_reads, executed, db_result, store_found, fallback_ran, exec_result,
          sql_result,
          summary_calls, query_gemini_calls, narrative_calls, narrative_question,
          narrative_result, returned, table, session_df, last_store, ever_stored,
          read_data, writer_pc, writer_df, reader_pc, reader_obs, fn_call, fn_result,
          summary_args, summary_df, summaries,
          sqlalchemy_available, self_conn, unreleased, store_op>>

classVars == <<words, question, is_retrieval>>
transVars == <<api_key, response, sql_query, translator_calls, prompt_reads>>
execVars == <<executed, db_result, store_found, fallback_ran, exec_result, sql_result>>
routeVars == <<summary_calls, query_gemini_calls, narrative_calls, narrative_question,
               narrative_result, returned>>
dataVars == <<table, session_df, last_store, ever_stored>>
concVars == <<writer_pc, writer_df, reader_pc, reader_obs>>
fnVars == <<fn_call, fn_result>>
sumVars == <<summary_args, summary_df, summaries>>
connVars == <<sqlalchemy_available, self_conn, unreleased, store_op>>

---------------------------------------------------------------------------
(* Optional values: Python's None and a present value.                     *)
None == <<>>
Some(x) == <<x>>
Val(o) == o[1]

---------------------------------------------------------------------------
(* Bounds of the model.                                                    *)
MaxWords == 3          \* words in a question handed to the classifier
MaxRespTokens == 3     \* tokens in a text the external service returns

---------------------------------------------------------------------------
(* Characters and the str methods the source uses.                         *)
UpperLetters == <<"A", "B", "C", "D", "E", "F", "G", "H", "I", "J", "K", "L", "M", "N", "O", "P", "Q", "R", "S", "T", "U", "V", "W", "X", "Y", "Z">>
LowerLetters == <<"a", "b", "c", "d", "e", "f", "g", "h", "i", "j", "k", "l", "m", "n", "o", "p", "q", "r", "s", "t", "u", "v", "w", "x", "y", "z">>
Digits == <<"0", "1", "2", "3", "4", "5", "6", "7", "8", "9">>

Range(f) == {f[i] : i \in DOMAIN f}

\* str.isspace() characters that str.strip() removes and \s matches
WhiteSpace == {" ", "\t", "\n", "\r", "\f"}

\* \w of the re module
WordChars == Range(UpperLetters) \cup Range(LowerLetters) \cup Range(Digits) \cup {"_"}

LowerChar(c) ==
    IF \E i \in 1..26 : UpperLetters[i] = c
    THEN LowerLetters[CHOOSE i \in 1..26 : UpperLetters[i] = c]
    ELSE c

UpperChar(c) ==
    IF \E i \in 1..26 : LowerLetters[i] = c
    THEN UpperLetters[CHOOSE i \in 1..26 : LowerLetters[i] = c]
    ELSE c

\* str.lower()
Lower(s) == [i \in 1..Len(s) |-> LowerChar(s[i])]

\* str.upper()
Upper(s) == [i \in 1..Len(s) |-> UpperChar(s[i])]

RECURSIVE LStrip(_)
LStrip(s) ==
    IF s # <<>> /\ Head(s) \in WhiteSpace THEN LStrip(Tail(s)) ELSE s

RECURSIVE RStrip(_)
RStrip(s) ==
    IF s # <<>> /\ s[Len(s)] \in WhiteSpace
    THEN RStrip(SubSeq(s, 1, Len(s) - 1))
    ELSE s

\* str.strip()
Strip(s) == RStrip(LStrip(s))

\* s[i:].startswith(p), positions from 1
PrefixAt(s, i, p) ==
    /\ i + Len(p) - 1 <= Len(s)
    /\ \A k \in 1..Len(p) : s[i + k - 1] = p[k]

\* str.startswith
StartsWith(s, p) == PrefixAt(s, 1, p)

\* the in operator on two strings: p in s
Contains(s, p) == \E i \in 1..(Len(s) - Len(p) + 1) : PrefixAt(s, i, p)

---------------------------------------------------------------------------
(* The part of the re module the classifier's patterns use: \b, literal    *)
(* text, .* and \s+.  A pattern is a sequence of these elements.           *)
WB == [t |-> "b", v |-> <<>>]
Lit(chars) == [t |-> "lit", v |-> chars]
DotStar == [t |-> "dotstar", v |-> <<>>]
WsPlus == [t |-> "ws+", v |-> <<>>]

IsWordAt(s, i) == i >= 1 /\ i <= Len(s) /\ s[i] \in WordChars

WordBoundary_Anywhere(s, i) == TRUE

\* \b holds between s[i-1] and s[i]
WordBoundary(s, i) == IsWordAt(s, i - 1) # IsWordAt(s, i)

\* the pattern's elements from k on match s from position i on
RECURSIVE MatchFrom(_, _, _, _)
MatchFrom(s, i, pat, k) ==
    IF k > Len(pat) THEN TRUE
    ELSE CASE pat[k].t = "b" ->
                WordBoundary(s, i) /\ MatchFrom(s, i, pat, k + 1)
           [] pat[k].t = "lit" ->
                PrefixAt(s, i, pat[k].v) /\ MatchFrom(s, i + Len(pat[k].v), pat, k + 1)
           [] pat[k].t = "dotstar" ->
                \E j \in i..(Len(s) + 1) :
                    /\ \A m \in i..(j - 1) : s[m] # "\n"
                    /\ MatchFrom(s, j, pat, k + 1)
           [] pat[k].t = "ws+" ->
                \E j \in (i + 1)..(Len(s) + 1) :
                    /\ \A m \in i..(j - 1) : s[m] \in WhiteSpace
                    /\ MatchFrom(s, j, pat, k + 1)

\* re.search(pattern, s) is not None
re_search(pat, s) == \E i \in 1..(Len(s) + 1) : MatchFrom(s, i, pat, 1)

---------------------------------------------------------------------------
(* sql_query_generator.is_data_retrieval_query                             *)
retrieval_patterns ==
    <<<<WB, Lit(<<"l", "i", "s", "t">>), WB>>,
      <<WB, Lit(<<"s", "h", "o", "w">>), WB>>,
      <<WB, Lit(<<"w", "h", "a", "t", " ", "a", "r", "e">>), WB>>,
      <<WB, Lit(<<"h", "o", "w", " ", "m", "a", "n", "y">>), WB>>,
      <<WB, Lit(<<"c", "o", "u", "n", "t">>), WB>>,
      <<WB, Lit(<<"t", "o", "t", "a", "l">>), WB>>,
      <<WB, Lit(<<"s", "u", "m">>), WB>>,
      <<WB, Lit(<<"a", "v", "e", "r", "a", "g", "e">>), WB>>,
      <<WB, Lit(<<"a", "v", "g">>), WB>>,
      <<WB, Lit(<<"m", "i", "n">>), WB>>,
      <<WB, Lit(<<"m", "a", "x">>), WB>>,
      <<WB, Lit(<<"w", "h", "i", "c", "h">>), WB>>,
      <<WB, Lit(<<"a", "l", "l">>), WB>>,
      <<WB, Lit(<<"f", "i", "n", "d">>), WB>>,
      <<WB, Lit(<<"g", "e", "t">>), WB>>,
      <<WB, Lit(<<"r", "e", "t", "r", "i", "e", "v", "e">>), WB>>,
      <<WB, Lit(<<"d", "i", "s", "p", "l", "a", "y">>), WB>>,
      <<WB, Lit(<<"w", "h", "a", "t", " ", "i", "s", " ", "t", "h", "e">>), WB>>,
      <<WB, Lit(<<"w", "h", "a", "t", " ", "a", "r", "e", " ", "t", "h", "e">>), WB>>,
      <<WB, Lit(<<"n", "a", "m", "e", "s">>), WB, DotStar, WB, Lit(<<"c", "a", "m", "p", "a", "i", "g", "n">>)>>,
      <<WB, Lit(<<"c", "a", "m", "p", "a", "i", "g", "n">>), DotStar, WB, Lit(<<"n", "a", "m", "e", "s">>), WB>>,
      <<WB, Lit(<<"w", "h", "a", "t">>), WsPlus, Lit(<<"c", "a", "m", "p", "a", "i", "g", "n", "s">>)>>,
      <<WB, Lit(<<"c", "a", "m", "p", "a", "i", "g", "n">>), WsPlus, Lit(<<"n", "a", "m", "e", "s">>)>>>>

analysis_keywords ==
    <<<<"a", "n", "a", "l", "y", "z", "e">>,
      <<"a", "n", "a", "l", "y", "s", "i", "s">>,
      <<"i", "n", "s", "i", "g", "h", "t">>,
      <<"r", "e", "c", "o", "m", "m", "e", "n", "d">>,
      <<"s", "u", "g", "g", "e", "s", "t">>,
      <<"o", "p", "t", "i", "m", "i", "z", "e">>,
      <<"i", "m", "p", "r", "o", "v", "e">>,
      <<"b", "e", "s", "t", " ", "p", "e", "r", "f", "o", "r", "m", "i", "n", "g">>,
      <<"w", "o", "r", "s", "t", " ", "p", "e", "r", "f", "o", "r", "m", "i", "n", "g">>,
      <<"w", "h", "y">>,
      <<"e", "x", "p", "l", "a", "i", "n">>,
      <<"c", "o", "m", "p", "a", "r", "e">>,
      <<"t", "r", "e", "n", "d">>,
      <<"p", "a", "t", "t", "e", "r", "n">>,
      <<"s", "t", "r", "a", "t", "e", "g", "y">>,
      <<"s", "h", "o", "u", "l", "d", " ", "i">>,
      <<"w", "h", "a", "t", " ", "s", "h", "o", "u", "l", "d">>,
      <<"h", "o", "w", " ", "c", "a", "n">>,
      <<"a", "d", "v", "i", "c", "e">>,
      <<"g", "u", "i", "d", "a", "n", "c", "e">>,
      <<"p", "e", "r", "f", "o", "r", "m", "a", "n", "c", "e">>,
      <<"o", "p", "t", "i", "m", "i", "z", "a", "t", "i", "o", "n">>,
      <<"r", "e", "c", "o", "m", "m", "e", "n", "d", "a", "t", "i", "o", "n">>>>

question_lower_CaseKept(q) == Strip(q)

\* question_lower = question.lower().strip()
question_lower(q) == Strip(Lower(q))

any_analysis_keyword_WholeWords(ql) ==
    \E n \in DOMAIN analysis_keywords : re_search(<<WB, Lit(analysis_keywords[n]), WB>>, ql)

\* any(keyword in question_lower for keyword in analysis_keywords)
any_analysis_keyword(ql) ==
    \E n \in DOMAIN analysis_keywords : Contains(ql, analysis_keywords[n])

\* any(re.search(pattern, question_lower) for pattern in retrieval_patterns)
any_retrieval_pattern(ql) ==
    \E n \in DOMAIN retrieval_patterns : re_search(retrieval_patterns[n], ql)

is_data_retrieval_query_RetrievalFirst(q) ==
    LET ql == question_lower(q) IN
    IF any_retrieval_pattern(ql) THEN TRUE
    ELSE IF any_analysis_keyword(ql) THEN FALSE
    ELSE FALSE

is_data_retrieval_query(q) ==
    LET ql == question_lower(q) IN
    IF any_analysis_keyword(ql) THEN FALSE
    ELSE IF any_retrieval_pattern(ql) THEN TRUE
    ELSE FALSE

---------------------------------------------------------------------------
(* Questions: words typed with one space between them.                     *)
QuestionWords ==
    { <<"s", "h", "o", "w">>,
      <<"S", "h", "o", "w">>,
      <<"l", "i", "s", "t">>,
      <<"l", "i", "s", "t", "i", "n", "g">>,
      <<"c", "o", "u", "n", "t", "s">>,
      <<"c", "a", "n", "c", "e", "l", "l", "e", "d">>,
      <<"t", "r", "e", "n", "d", "i", "n", "g">>,
      <<"W", "h", "y">>,
      <<"w", "h", "a", "t">>,
      <<"a", "r", "e">>,
      <<"c", "a", "m", "p", "a", "i", "g", "n", "s">>,
      <<"n", "a", "m", "e", "s">>,
      <<"C", "o", "s", "t">> }

RECURSIVE JoinWords(_)
JoinWords(ws) ==
    IF ws = <<>> THEN <<>>
    ELSE IF Len(ws) = 1 THEN ws[1]
    ELSE ws[1] \o <<" ">> \o JoinWords(Tail(ws))

WordLists == UNION { [1..n -> QuestionWords] : n \in 1..MaxWords }

---------------------------------------------------------------------------
Init ==
    /\ pc = "idle"
    /\ words = <<>>
    /\ question = <<>>
    /\ is_retrieval = FALSE
    /\ api_key = TRUE
    /\ response = None
    /\ sql_query = None
    /\ translator_calls = 0
    /\ prompt_reads = {}
    /\ executed = {}
    /\ db_result = None
    /\ store_found = None
    /\ fallback_ran = FALSE
    /\ exec_result = None
    /\ sql_result = None
    /\ summary_calls = 0
    /\ query_gemini_calls = 0
    /\ narrative_calls = 0
    /\ narrative_question = None
    /\ narrative_result = None
    /\ returned = None
    /\ table = None
    /\ session_df = None
    /\ last_store = None
    /\ ever_stored = {}
    /\ read_data = None
    /\ writer_pc = "idle"
    /\ writer_df = None
    /\ reader_pc = "idle"
    /\ reader_obs = None
    /\ fn_call = None
    /\ fn_result = None
    /\ summary_args = None
    /\ summary_df = None
    /\ summaries = <<>>
    /\ sqlalchemy_available = None
    /\ self_conn = FALSE
    /\ unreleased = 0
    /\ store_op = None

(* The classifier applied to a question.                                   *)
Classify(ws) ==
    /\ pc = "idle"
    /\ words' = ws
    /\ question' = JoinWords(ws)
    /\ is_retrieval' = is_data_retrieval_query(question')
    /\ pc' = "classified"
    /\ UNCHANGED <<transVars, execVars, routeVars, dataVars, read_data, concVars, sumVars,
                   fnVars,
                   connVars>>

ClassifyReturn ==
    /\ pc = "classified"
    /\ pc' = "idle"
    /\ words' = <<>>
    /\ question' = <<>>
    /\ is_retrieval' = FALSE
    /\ UNCHANGED <<transVars, execVars, routeVars, dataVars, read_data, concVars, sumVars,
                   fnVars,
                   connVars>>

NextClassify ==
    \/ \E ws \in WordLists : Classify(ws)
    \/ ClassifyReturn

SpecClassify == Init /\ [][NextClassify]_vars

---------------------------------------------------------------------------
(* What the classifier's contract says, stated on the words of the         *)
(* question rather than on its characters.                                 *)

\* the question contains an analysis keyword (as text, whatever the case)
ContainsAnalysisKeyword(q) ==
    \E n \in DOMAIN analysis_keywords : Contains(Lower(q), analysis_keywords[n])

LowerWords(ws) == [i \in DOMAIN ws |-> Lower(ws[i])]

SimpleRetrievalWords ==
    { <<"l", "i", "s", "t">>,
      <<"s", "h", "o", "w">>,
      <<"c", "o", "u", "n", "t">>,
      <<"t", "o", "t", "a", "l">>,
      <<"s", "u", "m">>,
      <<"a", "v", "e", "r", "a", "g", "e">>,
      <<"a", "v", "g">>,
      <<"m", "i", "n">>,
      <<"m", "a", "x">>,
      <<"w", "h", "i", "c", "h">>,
      <<"a", "l", "l">>,
      <<"f", "i", "n", "d">>,
      <<"g", "e", "t">>,
      <<"r", "e", "t", "r", "i", "e", "v", "e">>,
      <<"d", "i", "s", "p", "l", "a", "y">> }

\* the words from position i on are the words of phrase
PhraseAt(lw, i, phrase) ==
    /\ i + Len(phrase) - 1 <= Len(lw)
    /\ \A k \in 1..Len(phrase) : lw[i + k - 1] = phrase[k]

W_what == <<"w", "h", "a", "t">>
W_are == <<"a", "r", "e">>
W_how == <<"h", "o", "w">>
W_many == <<"m", "a", "n", "y">>
W_is == <<"i", "s">>
W_the == <<"t", "h", "e">>
W_names == <<"n", "a", "m", "e", "s">>
W_campaign == <<"c", "a", "m", "p", "a", "i", "g", "n">>
W_campaigns == <<"c", "a", "m", "p", "a", "i", "g", "n", "s">>

\* a retrieval signal occurs in the question as whole words
WholeWordRetrievalSignal(ws) ==
    LET lw == LowerWords(ws) IN
    \/ \E i \in DOMAIN lw : lw[i] \in SimpleRetrievalWords
    \/ \E i \in DOMAIN lw : PhraseAt(lw, i, <<W_what, W_are>>)
    \/ \E i \in DOMAIN lw : PhraseAt(lw, i, <<W_how, W_many>>)
    \/ \E i \in DOMAIN lw : PhraseAt(lw, i, <<W_what, W_is, W_the>>)
    \/ \E i, j \in DOMAIN lw : i < j /\ lw[i] = W_names /\ StartsWith(lw[j], W_campaign)
    \/ \E i, j \in DOMAIN lw : i < j /\ StartsWith(lw[i], W_campaign) /\ lw[j] = W_names
    \/ \E i \in DOMAIN lw : i < Len(lw) /\ lw[i] = W_what /\ StartsWith(lw[i + 1], W_campaigns)
    \/ \E i \in DOMAIN lw : i < Len(lw) /\ lw[i] = W_campaign /\ StartsWith(lw[i + 1], W_names)

\* C3: a question that contains an analysis keyword is classified Analysis
\* (is_data_retrieval_query returns False), whatever retrieval words it
\* also contains.
C3_AnalysisHasPriority ==
    (pc = "classified" /\ ContainsAnalysisKeyword(question)) => is_retrieval = FALSE

\* a question with the analysis keyword "why" and the retrieval word "show"
C3_Witness ==
    /\ pc = "classified"
    /\ ContainsAnalysisKeyword(question)
    /\ \E i \in DOMAIN words : Lower(words[i]) = <<"s", "h", "o", "w">>
    /\ WholeWordRetrievalSignal(words)
    /\ is_retrieval = FALSE

\* an analysis keyword occurs in the question as a word or as words in a row
KeywordAsWholeWords(ws) ==
    LET lw == LowerWords(ws) IN
    \E n \in DOMAIN analysis_keywords : \E i \in DOMAIN lw : \E j \in i..Len(lw) :
        JoinWords(SubSeq(lw, i, j)) = analysis_keywords[n]

\* C30: analysis keywords are matched as substrings of the lower-cased
\* question, without word boundaries: a question in which an analysis
\* keyword occurs only inside a word or across words is classified Analysis
\* even though a retrieval signal occurs in it as whole words.
C30_KeywordsMatchInsideWords ==
    (/\ pc = "classified"
     /\ ContainsAnalysisKeyword(question)
     /\ ~KeywordAsWholeWords(words)
     /\ WholeWordRetrievalSignal(words)) => is_retrieval = FALSE

\* "show cancelled campaigns": how can across two words, show a whole word
C30_Witness ==
    /\ pc = "classified"
    /\ words = <<<<"s", "h", "o", "w">>, <<"c", "a", "n", "c", "e", "l", "l", "e", "d">>,
                 W_campaigns>>
    /\ Contains(question, <<"h", "o", "w", " ", "c", "a", "n">>)
    /\ ~KeywordAsWholeWords(words)
    /\ WholeWordRetrievalSignal(words)
    /\ is_retrieval = FALSE

C5_DefaultAndCaseInsensitive ==
    pc = "classified" =>
        /\ (~ContainsAnalysisKeyword(question) /\ ~WholeWordRetrievalSignal(words))
              => is_retrieval = FALSE
        /\ is_retrieval = is_data_retrieval_query(Upper(question))
        /\ is_retrieval = is_data_retrieval_query(Lower(question))
        /\ is_retrieval = is_data_retrieval_query(<<" ", "\t">> \o question \o <<"\n">>)

\* "Cost": no signal at all, typed with a capital
C5_Witness ==
    /\ pc = "classified"
    /\ words = <<<<"C", "o", "s", "t">>>>
    /\ is_retrieval = FALSE
    /\ is_data_retrieval_query(Upper(<<"S", "h", "o", "w", " ">> \o question)) = TRUE

---------------------------------------------------------------------------
(* sql_query_generator.generate_sql_from_nl: the post-processing and the   *)
(* validation of the text the external service returned.                   *)
\* the backquote character (a string the module's lexer can hold stands for it)
BackQuote == "BQ"
FENCE == <<BackQuote, BackQuote, BackQuote>>
SQL_TAG == <<"s", "q", "l">>
SELECT == <<"S", "E", "L", "E", "C", "T">>

\* re.sub of the fence followed by sql and \s* (flags=re.IGNORECASE)
RECURSIVE sub_fence_sql(_)
sub_fence_sql(s) ==
    IF s = <<>> THEN <<>>
    ELSE IF PrefixAt(s, 1, FENCE) /\ PrefixAt(Lower(s), 4, SQL_TAG)
         THEN sub_fence_sql(LStrip(SubSeq(s, 7, Len(s))))
         ELSE <<Head(s)>> \o sub_fence_sql(Tail(s))

\* re.sub of the fence followed by \s*
RECURSIVE sub_fence(_)
sub_fence(s) ==
    IF s = <<>> THEN <<>>
    ELSE IF PrefixAt(s, 1, FENCE)
         THEN sub_fence(LStrip(SubSeq(s, 4, Len(s))))
         ELSE <<Head(s)>> \o sub_fence(Tail(s))

clean_sql_NoFinalStrip(text) == sub_fence(sub_fence_sql(Strip(text)))

\* response.text.strip(), the two re.sub calls, and strip() again
clean_sql(text) == Strip(sub_fence(sub_fence_sql(Strip(text))))

starts_with_select_Anywhere(sql) == Contains(Upper(sql), SELECT)

\* sql_query.upper().startswith('SELECT')
starts_with_select(sql) == StartsWith(Upper(sql), SELECT)

(* Texts of the external service: tokens written one after the other.      *)
TokFence == FENCE
TokSql == <<"s", "q", "l">>
TokSqlCap == <<"S", "q", "l">>
TokSpace == <<" ">>
TokNewline == <<"\n">>
TokSelect == SELECT
TokSelectLower == <<"s", "e", "l", "e", "c", "t">>
TokDrop == <<"D", "R", "O", "P">>
TokSemi == <<";">>
\* the persisted table's name (database.py: self.table_name) and the name of
\* the dataset in execute_sql_query's locals()
TABLE_NAME == <<"c", "a", "m", "p", "a", "i", "g", "n", "_", "d", "a", "t", "a">>
DF_NAME == <<"d", "f">>
FROM == <<"F", "R", "O", "M", " ">>
TokFromCampaignData == <<"*">> \o FROM \o TABLE_NAME
TokFromDf == <<"*">> \o FROM \o DF_NAME

TextTokens ==
    {TokFence, TokSql, TokSqlCap, TokSpace, TokNewline, TokSelect,
     TokSelectLower, TokDrop, TokSemi}

TableTokens == {TokFromCampaignData, TokFromDf}

ResponseTokens == TextTokens \cup TableTokens

RECURSIVE Flatten(_)
Flatten(toks) == IF toks = <<>> THEN <<>> ELSE Head(toks) \o Flatten(Tail(toks))

\* the texts: a FROM clause, where there is one, ends the text
ResponseTokenLists ==
    UNION { { toks \in [1..n -> ResponseTokens] :
                \A k \in 1..(n - 1) : toks[k] \in TextTokens } : n \in 0..MaxRespTokens }

\* the outcomes of model.generate_content(prompt) and response.text: an
\* exception (None) or a text
ServiceOutcomes == {None} \cup { Some(toks) : toks \in ResponseTokenLists }

\* the calls of model.generate_content one call of generate_sql_from_nl makes
translator_attempts_Retry(key, outcome) ==
    IF ~key THEN 0 ELSE IF outcome = None THEN 2 ELSE 1

translator_attempts(key, outcome) == IF key THEN 1 ELSE 0

\* generate_sql_from_nl, given get_api_key()'s answer and the service's outcome
generate_sql_from_nl(key, outcome) ==
    IF ~key THEN None
    ELSE IF outcome = None THEN None
    ELSE LET cleaned == clean_sql(Flatten(Val(outcome))) IN
         IF ~starts_with_select(cleaned) THEN None ELSE Some(cleaned)

---------------------------------------------------------------------------
(* The engines that run the query text: SQLite behind                      *)
(* pd.read_sql_query(sql_query, engine) in CampaignDatabase.execute_sql    *)
(* and behind pandasql's sqldf.  sqlite3's cursor.execute prepares one     *)
(* statement and raises ("You can only execute one statement at a time")   *)
(* before running anything when more text follows it.                      *)
RECURSIVE SplitAtSemicolon(_, _)
SplitAtSemicolon(s, cur) ==
    IF s = <<>> THEN <<cur>>
    ELSE IF Head(s) = ";" THEN <<cur>> \o SplitAtSemicolon(Tail(s), <<>>)
    ELSE SplitAtSemicolon(Tail(s), Append(cur, Head(s)))

NonBlank(frag) == Strip(frag) # <<>>

Statements(text) == SelectSeq(SplitAtSemicolon(text, <<>>), NonBlank)

\* the statements the engine runs for the text: the one statement, or none
engine_runs(text) ==
    IF Len(Statements(text)) = 1 THEN {Strip(Statements(text)[1])} ELSE {}

Pair(r, e) == [result |-> r, error |-> e]

ErrTableMissing == "Table 'campaign_data' does not exist in database. Please upload a CSV file first."
ErrSqlExecution == "SQL execution error"
ErrPandasqlUnavailable == "SQL execution failed: pandasql not available and database unavailable"
ErrCouldNotGenerate == "Could not generate SQL query from question"

StoreEnvs == {"raises", "unreachable", "no_table", "ready"}

\* datasets read from uploaded files: two with rows, one with a header only
Datasets == {"A", "B", "E"}
IsEmpty(d) == d = "E"

Table(d, filled) == Some([data |-> d, filled |-> filled])

\* the dataset query_with_sql is called with, and what the database file
\* can hold then: nothing, that dataset, or another one
CallDatasets == {"A"}
\* what the store holds when query_with_sql is called: nothing, or an upload
\* other than the session's
StoredTables == {None, Table("B", TRUE)}

\* what goes wrong around the store: get_database raises, the file cannot
\* be opened, or nothing
StoreFaults == {"raises", "unreachable", "none"}

\* the store as execute_sql finds it: the sqlite_master check on the file
store_env(fault, tbl) ==
    IF fault # "none" THEN fault
    ELSE IF tbl = None THEN "no_table" ELSE "ready"

\* the statement reads from the table of that name
reads_table(sql, name) == Contains(sql, FROM \o name)
QueryOutcomes == {"error", "empty", "rows"}

execute_sql_NoNamedError(sql, env, qout) ==
    IF env \in {"unreachable", "no_table"} THEN Pair(None, Some(ErrSqlExecution))
    ELSE IF engine_runs(sql) = {} \/ qout = "error" THEN Pair(None, Some(ErrSqlExecution))
    ELSE IF reads_table(sql, DF_NAME) THEN Pair(None, Some(ErrSqlExecution))
    ELSE Pair(Some(qout), None)

\* CampaignDatabase.execute_sql: the store is unreachable (create_engine or
\* the table check raises), the table is missing, or the query is run and
\* raises or returns rows
execute_sql(sql, env, qout) ==
    IF env = "unreachable" THEN Pair(None, Some(ErrSqlExecution))
    ELSE IF env = "no_table" THEN Pair(None, Some(ErrTableMissing))
    ELSE IF engine_runs(sql) = {} \/ qout = "error" THEN Pair(None, Some(ErrSqlExecution))
    ELSE IF reads_table(sql, DF_NAME) THEN Pair(None, Some(ErrSqlExecution))
    ELSE Pair(Some(qout), None)

\* the try around get_database and db.execute_sql in execute_sql_query: an
\* exception is printed and leaves no result
ErrDatabaseException == "Database exception"

store_path(sql, env, qout) ==
    IF env = "raises" THEN Pair(None, Some(ErrDatabaseException))
    ELSE execute_sql(sql, env, qout)

store_gave_result_OrNamedError(r) ==
    r.result # None \/ r.error = Some(ErrTableMissing)

\* if result is not None: return result, None; otherwise fall through
store_gave_result(r) == r.result # None

\* where execute_sql_query goes after the store: it returns the result, or
\* falls through to pandasql whatever the error says
after_store(r) == IF store_gave_result(r) THEN "sql_finish" ELSE "fallback"

execute_sql_runs(sql, env) ==
    IF env = "ready" THEN engine_runs(sql) ELSE {}

sqldf_fallback_KeepsStoreSilence(sql, available, qout) ==
    IF ~available THEN Pair(None, None)
    ELSE IF engine_runs(sql) = {} \/ qout = "error" THEN Pair(None, Some(ErrSqlExecution))
    ELSE IF reads_table(sql, TABLE_NAME) THEN Pair(None, Some(ErrSqlExecution))
    ELSE Pair(Some(qout), None)

\* the pandasql part of execute_sql_query
sqldf_fallback(sql, available, qout) ==
    IF ~available THEN Pair(None, Some(ErrPandasqlUnavailable))
    ELSE IF engine_runs(sql) = {} \/ qout = "error" THEN Pair(None, Some(ErrSqlExecution))
    ELSE IF reads_table(sql, TABLE_NAME) THEN Pair(None, Some(ErrSqlExecution))
    ELSE Pair(Some(qout), None)

sqldf_runs(sql, available) ==
    IF available THEN engine_runs(sql) ELSE {}

NoResultsFound == "No results found."
MarkdownTable == "markdown table"

format_sql_result_EmptyText(result_df) ==
    IF result_df = None \/ Val(result_df) = "empty" THEN "" ELSE MarkdownTable

format_sql_result(result_df) ==
    IF result_df = None \/ Val(result_df) = "empty" THEN NoResultsFound
    ELSE MarkdownTable

StmtTableCheck == "SELECT name FROM sqlite_master WHERE type='table' AND name=?"
StmtTableInfo == "PRAGMA table_info(campaign_data)"
StmtSample == "SELECT * FROM campaign_data LIMIT 3"

prompt_statements_RunsSample(tbl) ==
    IF tbl = None THEN {StmtTableCheck, StmtSample}
    ELSE {StmtTableCheck, StmtTableInfo, StmtSample, "SELECT * FROM campaign_data"}

\* what the store runs in get_table_info (generate_table_schema) and in
\* get_sample_data, both called by query_with_sql before the translator:
\* the table check, and on an existing table the schema and the sample
prompt_statements(tbl) ==
    IF tbl = None THEN {StmtTableCheck} ELSE {StmtTableCheck, StmtTableInfo, StmtSample}

---------------------------------------------------------------------------
(* query_with_sql, step by step.                                           *)

\* the schema and the sample rows are read (get_table_info, get_sample_data:
\* no effect on the state kept here), then generate_sql_from_nl is called
Translate(outcome) ==
    /\ pc = "translate"
    /\ prompt_reads' = prompt_statements(table)
    /\ response' = IF api_key THEN outcome ELSE None
    /\ translator_calls' = translator_calls + translator_attempts(api_key, outcome)
    /\ sql_query' = generate_sql_from_nl(api_key, outcome)
    /\ IF sql_query' = None
       THEN /\ sql_result' = Some(Pair(None, Some(ErrCouldNotGenerate)))
            /\ pc' = "sql_done"
       ELSE /\ sql_result' = sql_result
            /\ pc' = "execute"
    /\ UNCHANGED <<classVars, api_key, executed, db_result, store_found, fallback_ran,
                   exec_result, routeVars, dataVars, read_data, concVars, sumVars,
                   fnVars,
                   connVars>>

\* execute_sql_query: the database first
ExecStore(fault, qout) ==
    /\ pc = "execute"
    /\ LET env == store_env(fault, table)
           r == store_path(Val(sql_query), env, qout) IN
       /\ db_result' = Some(r)
       /\ store_found' = Some(env)
       /\ read_data' = IF r.result # None THEN Some(Val(table).data) ELSE read_data
       /\ executed' = executed \cup execute_sql_runs(Val(sql_query), env)
       /\ pc' = after_store(r)
       /\ exec_result' = IF pc' = "sql_finish" THEN Some(Pair(r.result, None))
                         ELSE exec_result
    /\ UNCHANGED <<classVars, transVars, fallback_ran, sql_result, routeVars, dataVars, concVars, sumVars,
                   fnVars,
                   connVars>>

\* execute_sql_query: the pandasql fallback
ExecFallback(available, qout) ==
    /\ pc = "fallback"
    /\ fallback_ran' = TRUE
    /\ exec_result' = Some(sqldf_fallback(Val(sql_query), available, qout))
    /\ read_data' = IF Val(exec_result').result # None THEN session_df ELSE read_data
    /\ executed' = executed \cup sqldf_runs(Val(sql_query), available)
    /\ pc' = "sql_finish"
    /\ UNCHANGED <<classVars, transVars, db_result, store_found, sql_result, routeVars,
                   dataVars, concVars, sumVars,
                   fnVars,
                   connVars>>

\* query_with_sql after execute_sql_query returned
SqlFinish ==
    /\ pc = "sql_finish"
    /\ LET r == Val(exec_result) IN
       sql_result' = IF r.error # None
                     THEN Some(Pair(None, r.error))
                     ELSE Some(Pair(Some(format_sql_result(r.result)), None))
    /\ pc' = "sql_done"
    /\ UNCHANGED <<classVars, transVars, executed, db_result, store_found, fallback_ran,
                   exec_result, routeVars, dataVars, read_data, concVars, sumVars,
                   fnVars,
                   connVars>>

(* query_with_sql called on its own, with the dataset df, while the store  *)
(* holds the table tbl.                                                     *)
SqlCall(df, tbl) ==
    /\ pc = "idle"
    /\ pc' = "translate"
    /\ api_key' \in BOOLEAN
    /\ session_df' = Some(df)
    /\ table' = tbl
    /\ UNCHANGED <<classVars, response, sql_query, translator_calls, execVars, routeVars,
                   last_store, ever_stored, read_data, concVars, sumVars,
                   fnVars,
                   connVars,
                   prompt_reads>>

SqlReturn ==
    /\ pc = "sql_done"
    /\ pc' = "idle"
    /\ api_key' = TRUE
    /\ response' = None
    /\ sql_query' = None
    /\ translator_calls' = 0
    /\ prompt_reads' = {}
    /\ executed' = {}
    /\ db_result' = None
    /\ store_found' = None
    /\ fallback_ran' = FALSE
    /\ exec_result' = None
    /\ sql_result' = None
    /\ session_df' = None
    /\ table' = None
    /\ read_data' = None
    /\ UNCHANGED <<classVars, routeVars, last_store, ever_stored, concVars, sumVars,
                   fnVars,
                   connVars>>

NextSql ==
    \/ \E df \in CallDatasets, tbl \in StoredTables : SqlCall(df, tbl)
    \/ \E outcome \in ServiceOutcomes : Translate(outcome)
    \/ \E fault \in StoreFaults, qout \in QueryOutcomes : ExecStore(fault, qout)
    \/ \E available \in BOOLEAN, qout \in QueryOutcomes : ExecFallback(available, qout)
    \/ SqlFinish
    \/ SqlReturn

SpecSql == Init /\ [][NextSql]_vars

---------------------------------------------------------------------------
(* What the translator's contract says, stated on the tokens of the        *)
(* service's text.                                                         *)
TokIsSpace(t) == t \in {TokSpace, TokNewline}

RECURSIVE TokLStrip(_)
TokLStrip(toks) ==
    IF toks # <<>> /\ TokIsSpace(Head(toks)) THEN TokLStrip(Tail(toks)) ELSE toks

RECURSIVE TokRStrip(_)
TokRStrip(toks) ==
    IF toks # <<>> /\ TokIsSpace(toks[Len(toks)])
    THEN TokRStrip(SubSeq(toks, 1, Len(toks) - 1))
    ELSE toks

\* a fence, the language tag right after it and the space that follows go
RECURSIVE TokDropFences(_)
TokDropFences(toks) ==
    IF toks = <<>> THEN <<>>
    ELSE IF Head(toks) = TokFence
         THEN LET rest == Tail(toks)
                  untagged == IF rest # <<>> /\ Head(rest) \in {TokSql, TokSqlCap}
                              THEN Tail(rest) ELSE rest
              IN TokDropFences(TokLStrip(untagged))
         ELSE <<Head(toks)>> \o TokDropFences(Tail(toks))

CleanedText(toks) == Flatten(TokRStrip(TokDropFences(TokRStrip(TokLStrip(toks)))))

BeginsWithSelect(text) ==
    /\ Len(text) >= 6
    /\ Lower(SubSeq(text, 1, 6)) = TokSelectLower

Translated == pc \in {"execute", "fallback", "sql_finish", "sql_done"}

ExecuteReturned == pc \in {"sql_finish", "sql_done"} /\ exec_result # None

StoreOnlyErrors == {Some(ErrTableMissing), Some(ErrDatabaseException)}

\* C11: execute_sql_query tries the store, then the in-memory fallback, then
\* reports an error: the fallback is attempted exactly when the store path
\* gave no result (missing table, error value or exception), a store
\* failure alone is never the returned error, and an error is returned only
\* after the fallback ran and was unavailable or failed, with no result.
C11_StoreThenFallback ==
    /\ fallback_ran => (db_result # None /\ Val(db_result).result = None)
    /\ ExecuteReturned =>
          /\ db_result # None
          /\ fallback_ran <=> Val(db_result).result = None
          /\ ~fallback_ran => Val(exec_result) = Pair(Val(db_result).result, None)
          /\ Val(exec_result).error # None =>
                /\ fallback_ran
                /\ Val(exec_result).result = None
                /\ Val(exec_result).error \notin StoreOnlyErrors
                /\ Val(exec_result).error \in
                      {Some(ErrPandasqlUnavailable), Some(ErrSqlExecution)}
          /\ (Val(exec_result).result = None) # (Val(exec_result).error = None)

\* the table was missing in the store, the fallback ran the query on the
\* dataset's local name and returned rows: no error
C11_Witness ==
    /\ ExecuteReturned
    /\ db_result = Some(Pair(None, Some(ErrTableMissing)))
    /\ fallback_ran
    /\ sql_query = Some(Flatten(<<TokSelect, TokFromDf>>))
    /\ exec_result = Some(Pair(Some("rows"), None))

\* C17 (as amended): execute_sql on a store with no persisted table returns
\* (None, the named table-does-not-exist error), and only then; a query that
\* fails on an existing table returns (None, SQL execution error), a
\* different text.  The caller execute_sql_query does not branch on the
\* difference: after either it runs the in-memory fallback, and the named
\* error is never what it returns.
C17_NamedMissingTableError ==
    /\ ErrTableMissing # ErrSqlExecution
    /\ db_result # None =>
          /\ store_found = Some("no_table") <=> table = None /\ store_found \notin
                {Some("raises"), Some("unreachable")}
          /\ store_found = Some("no_table") <=> Val(db_result) = Pair(None, Some(ErrTableMissing))
          /\ (store_found = Some("ready") /\ Val(db_result).result = None) =>
                Val(db_result).error = Some(ErrSqlExecution)
          /\ (Val(db_result).result = None /\ pc # "fallback") => fallback_ran
    /\ exec_result # None => Val(exec_result).error # Some(ErrTableMissing)

\* no table: the named error, then the fallback, whose own error is returned
C17_Witness ==
    /\ ExecuteReturned
    /\ table = None
    /\ db_result = Some(Pair(None, Some(ErrTableMissing)))
    /\ fallback_ran
    /\ exec_result = Some(Pair(None, Some(ErrSqlExecution)))

\* C17 (as written): the named error differs from the execution error, and
\* the caller execute_sql_query branches on the difference: what it does
\* after the one is not what it does after the other.
C17_CallerBranchesOnNamedError ==
    /\ ErrTableMissing # ErrSqlExecution
    /\ db_result # None =>
          (store_found = Some("no_table") <=> Val(db_result) = Pair(None, Some(ErrTableMissing)))
    /\ after_store(Pair(None, Some(ErrTableMissing)))
          # after_store(Pair(None, Some(ErrSqlExecution)))

\* C1: every statement an engine (the store's or the in-memory fallback's)
\* runs on behalf of the service's text is a single retrieval statement:
\* it begins with SELECT and no other statement follows it.
C1_OnlyReadOnlyExecuted ==
    \A st \in executed : BeginsWithSelect(st) /\ ~Contains(st, TokSemi)

\* "SELECT;DROP" passed the validation, was handed to both engines, and
\* neither ran a statement of it
C1_Witness ==
    /\ pc = "sql_done"
    /\ sql_query = Some(Flatten(<<TokSelect, TokSemi, TokDrop>>))
    /\ db_result # None
    /\ fallback_ran
    /\ executed = {}

\* C2: generate_sql_from_nl returns None when the service's text, with its
\* fences and surrounding space removed, does not begin with SELECT in any
\* letter case (and when the call raised); otherwise it returns that
\* cleaned text.
C2_TranslatorGate ==
    (Translated /\ api_key) =>
        IF response = None THEN sql_query = None
        ELSE LET c == CleanedText(Val(response)) IN
             IF BeginsWithSelect(c) THEN sql_query = Some(c) ELSE sql_query = None

\* "select" in lower case behind a fence with its tag is returned cleaned
C2_Witness ==
    /\ Translated
    /\ response = Some(<<TokFence, TokSqlCap, TokSelectLower>>)
    /\ sql_query = Some(TokSelectLower)

---------------------------------------------------------------------------
(* process_query (llm_client.py): the router.  The chat handler of app.py  *)
(* stops before it when no API key is configured, so the key is present.   *)

\* the questions asked
AskedQuestions ==
    { <<<<"s", "h", "o", "w">>>>,
      <<<<"l", "i", "s", "t">>, <<"c", "a", "m", "p", "a", "i", "g", "n", "s">>>>,
      <<<<"S", "h", "o", "w">>, <<"W", "h", "y">>>>,
      <<<<"W", "h", "y">>>>,
      <<<<"C", "o", "s", "t">>>> }

\* the translator's outcomes while questions are routed: an exception, prose,
\* a fenced query on the persisted table, a query on the dataset's local
\* name, a query with no table, and a query followed by a second statement
RoutedServiceOutcomes ==
    { None,
      Some(<<TokDrop>>),
      Some(<<TokFence, TokSql, TokNewline, TokSelect, TokFromCampaignData>>),
      Some(<<TokSelect, TokFromCampaignData>>),
      Some(<<TokSelectLower, TokFromDf>>),
      Some(<<TokSelect>>),
      Some(<<TokSelect, TokFromCampaignData, TokSemi, TokDrop>>) }

\* how create_compact_summary ends: it returns the summary, or an exception
\* leaves it (get_campaign_summary converts the grouped values with float()
\* outside any try)
SummaryOutcomes == {"summary", "raise"}

\* how query_gemini ends: json.dumps(summary) raises before the service is
\* called, the service call raises, or response.text is returned
NarrativeOutcomes == {"dumps_fault", "service_fault", "text"}

ErrKeyNotFound == "Gemini API key not found."
ErrNotSerializable == "Object is not JSON serializable"
ErrQueryingGemini == "Error querying Gemini API"
LlmResponse == "response.text"
FallbackNote == "Note: Direct SQL query failed, using AI analysis instead."

\* query_gemini's result for the outcome: the text, or the exception's text
query_gemini(key, outcome) ==
    IF ~key THEN Pair(None, Some(ErrKeyNotFound))
    ELSE IF outcome = "dumps_fault" THEN Pair(None, Some(ErrNotSerializable))
    ELSE IF outcome = "service_fault" THEN Pair(None, Some(ErrQueryingGemini))
    ELSE Pair(Some(LlmResponse), None)

\* the calls of model.generate_content one call of query_gemini makes
generate_content_calls(key, outcome) ==
    IF key /\ outcome \in {"service_fault", "text"} THEN 1 ELSE 0

\* Python's truth value of query_with_sql's first component
Truthy(text) == text # None /\ Val(text) # ""

\* the fallback answer: the note with sql_error in it, then the narrative
fallback_response(sql_error, llm_response) ==
    <<FallbackNote, sql_error, llm_response>>

\* the error when the fallback's narrative failed too
fallback_error_NarrativeOnly(sql_error, e) == <<e>>

fallback_error(sql_error, e) ==
    <<"SQL query failed: ", sql_error, ". LLM also failed: ", e>>

Ask(ws) ==
    /\ pc = "idle"
    /\ session_df # None
    /\ words' = ws
    /\ question' = JoinWords(ws)
    /\ is_retrieval' = FALSE
    /\ api_key' = TRUE
    /\ pc' = "process_query"
    /\ UNCHANGED <<response, sql_query, translator_calls, execVars, routeVars, dataVars, read_data, concVars, sumVars,
                   fnVars,
                   connVars,
                   prompt_reads>>

\* is_retrieval = is_data_retrieval_query(question), and the branch on it
ProcessQuery ==
    /\ pc = "process_query"
    /\ is_retrieval' = is_data_retrieval_query(question)
    /\ pc' = IF is_retrieval' THEN "translate" ELSE "summary"
    /\ UNCHANGED <<words, question, transVars, execVars, routeVars, dataVars, read_data, concVars, sumVars,
                   fnVars,
                   connVars>>

\* query_with_sql returned: if sql_result: return sql_result, None
Route ==
    /\ pc = "sql_done"
    /\ LET r == Val(sql_result) IN
       IF Truthy(r.result)
       THEN /\ returned' = Some(Pair(Some(<<Val(r.result)>>), None))
            /\ pc' = "done"
       ELSE /\ returned' = returned
            /\ pc' = "summary"
    /\ UNCHANGED <<classVars, transVars, execVars, summary_calls, query_gemini_calls,
                   narrative_calls, narrative_question, narrative_result, dataVars, read_data, concVars, sumVars,
                   fnVars,
                   connVars>>

\* summary = create_compact_summary(df, column_mapping), outside the try
Summary(outcome) ==
    /\ pc = "summary"
    /\ summary_calls' = summary_calls + 1
    /\ pc' = IF outcome = "raise" THEN "raised" ELSE "narrate"
    /\ UNCHANGED <<classVars, transVars, execVars, query_gemini_calls, narrative_calls,
                   narrative_question, narrative_result, returned, dataVars, read_data, concVars, sumVars,
                   fnVars,
                   connVars>>

\* the try around query_gemini(question, summary) and the two returns
Narrate(outcome) ==
    /\ pc = "narrate"
    /\ query_gemini_calls' = query_gemini_calls + 1
    /\ narrative_calls' = narrative_calls + generate_content_calls(api_key, outcome)
    /\ narrative_question' = Some(question)
    /\ LET g == query_gemini(api_key, outcome) IN
       /\ narrative_result' = Some(g)
       /\ returned' =
            IF is_retrieval
            THEN LET sql_error == Val(Val(sql_result).error) IN
                 IF g.error = None
                 THEN Some(Pair(Some(fallback_response(sql_error, Val(g.result))), None))
                 ELSE Some(Pair(None, Some(fallback_error(sql_error, Val(g.error)))))
            ELSE IF g.error = None
                 THEN Some(Pair(Some(<<Val(g.result)>>), None))
                 ELSE Some(Pair(None, Some(<<Val(g.error)>>)))
    /\ pc' = "done"
    /\ UNCHANGED <<classVars, transVars, execVars, summary_calls, dataVars, read_data, concVars, sumVars,
                   fnVars,
                   connVars>>

\* process_query returned, or the exception left it: the next question
Finish ==
    /\ pc \in {"done", "raised"}
    /\ pc' = "idle"
    /\ words' = <<>>
    /\ question' = <<>>
    /\ is_retrieval' = FALSE
    /\ api_key' = TRUE
    /\ response' = None
    /\ sql_query' = None
    /\ translator_calls' = 0
    /\ prompt_reads' = {}
    /\ executed' = {}
    /\ db_result' = None
    /\ store_found' = None
    /\ fallback_ran' = FALSE
    /\ exec_result' = None
    /\ sql_result' = None
    /\ summary_calls' = 0
    /\ query_gemini_calls' = 0
    /\ narrative_calls' = 0
    /\ narrative_question' = None
    /\ narrative_result' = None
    /\ returned' = None
    /\ read_data' = None
    /\ UNCHANGED <<dataVars, concVars, sumVars, fnVars,
                   connVars>>

---------------------------------------------------------------------------
(* The upload handler of app.py and CampaignDatabase.store_dataframe.      *)

\* where store_dataframe's try is left by an exception: nowhere, before the
\* table is touched (connect, add_row_level_metrics, create_engine, a locked
\* file), after to_sql dropped the old table, after it created the new one
\* and the insert was rolled back, or in the verification after the write
WriteFaults == {"none", "before_write", "after_drop", "after_create", "verify"}

store_dataframe_EmptyReplaces(tbl, d, fault) ==
    IF fault = "before_write" THEN [table |-> tbl, ok |-> FALSE]
    ELSE IF IsEmpty(d) THEN [table |-> Table(d, TRUE), ok |-> FALSE]
    ELSE IF fault = "after_drop" THEN [table |-> None, ok |-> FALSE]
    ELSE IF fault = "after_create" THEN [table |-> Table(d, FALSE), ok |-> FALSE]
    ELSE IF fault = "verify" THEN [table |-> Table(d, TRUE), ok |-> FALSE]
    ELSE [table |-> Table(d, TRUE), ok |-> TRUE]

store_dataframe_KeepsOldRows(tbl, d, fault) ==
    IF fault = "before_write" \/ IsEmpty(d) THEN [table |-> tbl, ok |-> FALSE]
    ELSE IF fault = "after_drop" THEN [table |-> None, ok |-> FALSE]
    ELSE IF fault = "after_create" THEN [table |-> Table(d, FALSE), ok |-> FALSE]
    ELSE IF fault = "verify" THEN [table |-> Table(d, TRUE), ok |-> FALSE]
    ELSE [table |-> IF tbl = None THEN Table(d, TRUE) ELSE tbl, ok |-> TRUE]

\* store_dataframe(df, column_mapping): the table it leaves and its return
\* value; every exception is caught and gives False
store_dataframe(tbl, d, fault) ==
    IF fault = "before_write" THEN [table |-> tbl, ok |-> FALSE]
    ELSE IF IsEmpty(d) THEN [table |-> tbl, ok |-> FALSE]
    ELSE IF fault = "after_drop" THEN [table |-> None, ok |-> FALSE]
    ELSE IF fault = "after_create" THEN [table |-> Table(d, FALSE), ok |-> FALSE]
    ELSE IF fault = "verify" THEN [table |-> Table(d, TRUE), ok |-> FALSE]
    ELSE [table |-> Table(d, TRUE), ok |-> TRUE]

\* a file is uploaded: process_csv and add_row_level_metrics succeed and the
\* dataset becomes the session's
Upload(d) ==
    /\ pc = "idle"
    /\ session_df' = Some(d)
    /\ pc' = "store"
    /\ UNCHANGED <<classVars, transVars, execVars, routeVars, table, last_store, ever_stored,
                   read_data, concVars, sumVars,
                   fnVars,
                   connVars>>

\* process_csv or add_row_level_metrics raises: st.session_state.df = None
UploadRejected ==
    /\ pc = "idle"
    /\ session_df # None
    /\ session_df' = None
    /\ UNCHANGED <<pc, classVars, transVars, execVars, routeVars, table, last_store,
                   ever_stored, read_data, concVars, sumVars,
                   fnVars,
                   connVars>>

\* success = db.store_dataframe(df, column_mapping); the handler only shows
\* a message on False
Store(fault) ==
    /\ pc = "store"
    /\ LET r == store_dataframe(table, Val(session_df), fault) IN
       /\ table' = r.table
       /\ last_store' = Some([data |-> Val(session_df), ok |-> r.ok])
       /\ ever_stored' = IF r.table # None /\ Val(r.table).filled
                         THEN ever_stored \cup {Val(r.table).data}
                         ELSE ever_stored
    /\ pc' = "idle"
    /\ UNCHANGED <<classVars, transVars, execVars, routeVars, session_df, read_data, concVars, sumVars,
                   fnVars,
                   connVars>>

Next ==
    \/ \E d \in Datasets : Upload(d)
    \/ UploadRejected
    \/ \E fault \in WriteFaults : Store(fault)
    \/ \E ws \in AskedQuestions : Ask(ws)
    \/ ProcessQuery
    \/ \E outcome \in RoutedServiceOutcomes : Translate(outcome)
    \/ \E fault \in StoreFaults, qout \in QueryOutcomes : ExecStore(fault, qout)
    \/ \E available \in BOOLEAN, qout \in QueryOutcomes : ExecFallback(available, qout)
    \/ SqlFinish
    \/ Route
    \/ \E outcome \in SummaryOutcomes : Summary(outcome)
    \/ \E outcome \in NarrativeOutcomes : Narrate(outcome)
    \/ Finish

Spec == Init /\ [][Next]_vars

---------------------------------------------------------------------------
(* What the router's contract says.                                        *)

\* process_query is over: it returned, or an exception left it
Over == pc \in {"done", "raised"}

\* query_with_sql ran the query without an error / with rows / with no row
SqlExecuted == exec_result # None /\ Val(exec_result).error = None
SqlRows == SqlExecuted /\ Val(exec_result).result = Some("rows")
SqlZeroRows == SqlExecuted /\ Val(exec_result).result = Some("empty")

\* the tabular answer was returned at once: no summary, no narrative
ShortCircuit ==
    /\ pc = "done"
    /\ returned # None
    /\ Val(returned).error = None
    /\ Val(returned).result \in {Some(<<MarkdownTable>>), Some(<<NoResultsFound>>)}
    /\ summary_calls = 0
    /\ query_gemini_calls = 0

NarrativeFailed == narrative_result # None /\ Val(narrative_result).error # None
NarrativeSucceeded == narrative_result # None /\ Val(narrative_result).error = None

SegmentOf(x, segs) == \E i \in 1..Len(segs) : segs[i] = x

ExternalCalls == translator_calls + narrative_calls

\* C6 (as amended): for a Retrieval question the tabular answer is returned
\* at once, with no summary built and no narrative generator called, exactly
\* when the structured query executed without an error, whatever the number
\* of rows; with zero rows the answer is the no-results text.
C6_ShortCircuitOnExecutedQuery ==
    (Over /\ is_retrieval) =>
        /\ ShortCircuit <=> SqlExecuted
        /\ SqlRows => Val(returned).result = Some(<<MarkdownTable>>)
        /\ SqlZeroRows => Val(returned).result = Some(<<NoResultsFound>>)

\* the query executed, returned zero rows, and the no-results text came back
\* with no summary and no narrative
C6_Witness ==
    /\ pc = "done"
    /\ is_retrieval
    /\ SqlZeroRows
    /\ returned = Some(Pair(Some(<<NoResultsFound>>), None))
    /\ summary_calls = 0
    /\ query_gemini_calls = 0

\* C6 (as written): the tabular answer is returned at once exactly when the
\* structured query succeeded with a non-empty result; a query that executes
\* and returns zero rows takes the narrative fallback.
C6_ZeroRowsTakeFallback ==
    (Over /\ is_retrieval) =>
        /\ ShortCircuit <=> SqlRows
        /\ SqlZeroRows => summary_calls = 1

\* C7 (as written): when the structured path fails for a Retrieval question,
\* the summary is built, the narrative generator is called with the original
\* question, and if it succeeds the answer begins with the note containing
\* the structured path's error and the error is None.
C7_FallbackCallsNarrative ==
    (Over /\ is_retrieval /\ ~SqlExecuted) =>
        /\ summary_calls = 1
        /\ query_gemini_calls = 1
        /\ narrative_question = Some(question)
        /\ NarrativeSucceeded =>
              /\ returned # None
              /\ Val(returned).error = None
              /\ Val(returned).result # None
              /\ LET answer == Val(Val(returned).result) IN
                 /\ answer[1] = FallbackNote
                 /\ answer[2] = Val(Val(sql_result).error)

\* C8: the returned error is not None only when the narrative generator was
\* called and failed; for a Retrieval question it then contains both the
\* structured path's error and the narrative error; exactly one of the
\* returned answer and error is not None.
C8_ErrorOnlyAfterNarrativeFailure ==
    pc = "done" =>
        /\ returned # None
        /\ (Val(returned).result = None) # (Val(returned).error = None)
        /\ Val(returned).error # None =>
              /\ query_gemini_calls = 1
              /\ NarrativeFailed
              /\ is_retrieval =>
                    /\ SegmentOf(Val(Val(sql_result).error), Val(Val(returned).error))
                    /\ SegmentOf(Val(Val(narrative_result).error), Val(Val(returned).error))

\* a Retrieval question whose query failed in both engines and whose
\* narrative failed at the service
C8_Witness ==
    /\ pc = "done"
    /\ is_retrieval
    /\ fallback_ran
    /\ narrative_result = Some(Pair(None, Some(ErrQueryingGemini)))
    /\ returned = Some(Pair(None, Some(fallback_error(ErrSqlExecution, ErrQueryingGemini))))

\* C9 (as written): an Analysis question never calls the translator or
\* execute_sql_query; it builds the summary and calls the narrative
\* generator exactly once.
C9_AnalysisSkipsStructuredPath ==
    (Over /\ ~is_retrieval) =>
        /\ translator_calls = 0
        /\ response = None
        /\ db_result = None
    /\ store_found = None
        /\ ~fallback_ran
        /\ executed = {}
        /\ summary_calls = 1
        /\ query_gemini_calls = 1

\* C10 (as amended): one question causes at most one translator call and at
\* most one narrative call of the external service; exactly one call in all
\* when the Retrieval path succeeds; for an Analysis question at most one,
\* and exactly one whenever an answer is returned or the service itself
\* failed; two only when the Retrieval path fell back after a translator call.
C10_ExternalCallBudget ==
    Over =>
        /\ translator_calls <= 1
        /\ narrative_calls <= 1
        /\ (is_retrieval /\ SqlExecuted) => ExternalCalls = 1
        /\ ~is_retrieval => ExternalCalls <= 1
        /\ (~is_retrieval /\ pc = "done" /\ Val(returned).result # None) => ExternalCalls = 1
        /\ (~is_retrieval /\ narrative_result = Some(Pair(None, Some(ErrQueryingGemini))))
              => ExternalCalls = 1
        /\ ExternalCalls = 2 =>
              /\ is_retrieval
              /\ ~SqlExecuted
              /\ translator_calls = 1
              /\ summary_calls = 1

\* a Retrieval question whose translator call gave no usable text and whose
\* fallback narrative was generated: two external calls
C10_Witness ==
    /\ pc = "done"
    /\ is_retrieval
    /\ sql_query = None
    /\ translator_calls = 1
    /\ narrative_calls = 1
    /\ Val(returned).error = None

\* C10 (as written): at most one translator call and at most one narrative
\* call; exactly one external call when the Retrieval path succeeds or the
\* question is Analysis; two only when the Retrieval path fell back after a
\* translator call.
C10_ExactlyOneCallForAnalysis ==
    Over =>
        /\ translator_calls <= 1
        /\ narrative_calls <= 1
        /\ ((is_retrieval /\ SqlExecuted) \/ ~is_retrieval) => ExternalCalls = 1
        /\ ExternalCalls = 2 => (is_retrieval /\ ~SqlExecuted /\ translator_calls = 1)

\* C12 (as written): when the store is unreachable and the in-memory
\* evaluator is installed, the fallback evaluates the validated query on the
\* persisted table's name against the session dataset and the router
\* returns the tabular answer, not an error and not a narrative fallback.
C12_FallbackAnswersStoreQuery ==
    ( /\ Over
      /\ is_retrieval
      /\ sql_query = Some(Flatten(<<TokSelect, TokFromCampaignData>>))
      /\ db_result = Some(Pair(None, Some(ErrDatabaseException)))
      /\ exec_result # Some(Pair(None, Some(ErrPandasqlUnavailable))) )
    => ShortCircuit

\* C13 (as written): process_query never raises to its caller: whatever the
\* faults of the store, the translator, context assembly and the narrative
\* generator, it ends by returning an (answer, error) pair.
C13_NeverRaises ==
    /\ pc # "raised"
    /\ pc = "done" => returned # None

StoreAnswered == db_result # None /\ Val(db_result).result # None

\* C14: after store_dataframe(B) returned True, the persisted table holds
\* B's rows and nothing else, and every execute_sql result that follows was
\* read from B, never from a dataset stored before.
C14_ReplaceSupersedes ==
    (last_store # None /\ Val(last_store).ok) =>
        /\ table = Table(Val(last_store).data, TRUE)
        /\ StoreAnswered => read_data = Some(Val(last_store).data)

\* A was stored, B replaced it with True, and a query got rows from the store
C14_Witness ==
    /\ "A" \in ever_stored
    /\ last_store = Some([data |-> "B", ok |-> TRUE])
    /\ db_result = Some(Pair(Some("rows"), None))
    /\ read_data = Some("B")

\* C15 (as written): after every upload the application handled, whether
\* store_dataframe returned True or False, what the store answers for the
\* session's dataset is read from that dataset, never from a table left by
\* an earlier upload.
C15_TableMirrorsLatestUpload ==
    StoreAnswered => read_data = session_df

\* C16: store_dataframe on an empty dataset returns False and leaves the
\* persisted table as it was; store_dataframe always returns to its caller,
\* and it returns True only when the table holds the new rows.
C16_EmptyStoreLeavesTable ==
    [][pc = "store" =>
          /\ pc' = "idle"
          /\ last_store' # None
          /\ Val(last_store').data = Val(session_df)
          /\ IsEmpty(Val(session_df)) => (table' = table /\ ~Val(last_store').ok)
          /\ table' # Table(Val(session_df), TRUE) => ~Val(last_store').ok]_vars

\* the empty dataset was uploaded over A's table: False, and A's table stays
C16_Witness ==
    /\ pc = "idle"
    /\ session_df = Some("E")
    /\ last_store = Some([data |-> "E", ok |-> FALSE])
    /\ table = Table("A", TRUE)

---------------------------------------------------------------------------
(* Two sessions on the same database file (every session uses the default  *)
(* path): one inside store_dataframe, one inside execute_sql.  Neither     *)
(* takes a lock or opens a transaction of its own; to_sql with             *)
(* if_exists='replace' issues DROP TABLE, CREATE TABLE and the INSERT one   *)
(* after the other, the two DDL statements committed as they run and the   *)
(* rows committed together.                                                *)

\* the datasets with rows: the empty one never reaches to_sql
WrittenDatasets == {d \in Datasets : ~IsEmpty(d)}

\* store_dataframe passed the empty check and calls to_sql
WriterStart(d) ==
    /\ writer_pc = "idle"
    /\ writer_df' = Some(d)
    /\ writer_pc' = "to_sql"
    /\ UNCHANGED <<pc, classVars, transVars, execVars, routeVars, dataVars, read_data,
                   reader_pc, reader_obs, fnVars,
                   sumVars,
                   connVars>>

\* to_sql: the old table is dropped
WriterDrop ==
    /\ writer_pc = "to_sql"
    /\ table' = None
    /\ writer_pc' = "dropped"
    /\ UNCHANGED <<pc, classVars, transVars, execVars, routeVars, session_df, last_store,
                   ever_stored, read_data, writer_df, reader_pc, reader_obs, fnVars,
                   sumVars,
                   connVars>>

\* to_sql: the new table is created
WriterCreate ==
    /\ writer_pc = "dropped"
    /\ table' = Table(Val(writer_df), FALSE)
    /\ writer_pc' = "created"
    /\ UNCHANGED <<pc, classVars, transVars, execVars, routeVars, session_df, last_store,
                   ever_stored, read_data, writer_df, reader_pc, reader_obs, fnVars,
                   sumVars,
                   connVars>>

\* to_sql: the rows are inserted and committed
WriterInsert ==
    /\ writer_pc = "created"
    /\ table' = Table(Val(writer_df), TRUE)
    /\ ever_stored' = ever_stored \cup {Val(writer_df)}
    /\ writer_pc' = "inserted"
    /\ UNCHANGED <<pc, classVars, transVars, execVars, routeVars, session_df, last_store,
                   read_data, writer_df, reader_pc, reader_obs, fnVars,
                   sumVars,
                   connVars>>

\* the verification reads the count and the table's name; return True
WriterReturn ==
    /\ writer_pc = "inserted"
    /\ last_store' = Some([data |-> Val(writer_df), ok |-> table = Table(Val(writer_df), TRUE)])
    /\ writer_df' = None
    /\ writer_pc' = "idle"
    /\ UNCHANGED <<pc, classVars, transVars, execVars, routeVars, table, session_df,
                   ever_stored, read_data, reader_pc, reader_obs, fnVars,
                   sumVars,
                   connVars>>

\* execute_sql: the sqlite_master check; no table gives the named error
ReaderCheck ==
    /\ reader_pc = "idle"
    /\ reader_obs' = Some([had_table |-> ever_stored # {},
                           result |-> IF table = None
                                      THEN Some(Pair(None, Some(ErrTableMissing)))
                                      ELSE None])
    /\ reader_pc' = IF table = None THEN "done" ELSE "checked"
    /\ UNCHANGED <<pc, classVars, transVars, execVars, routeVars, dataVars, read_data,
                   writer_pc, writer_df, fnVars,
                   sumVars,
                   connVars>>

\* execute_sql: pd.read_sql_query(sql_query, engine) on the table as it is now
ReaderQuery ==
    /\ reader_pc = "checked"
    /\ reader_obs' = Some([had_table |-> Val(reader_obs).had_table,
                           result |-> IF table = None
                                      THEN Some(Pair(None, Some(ErrSqlExecution)))
                                      ELSE Some(Pair(table, None))])
    /\ reader_pc' = "done"
    /\ UNCHANGED <<pc, classVars, transVars, execVars, routeVars, dataVars, read_data,
                   writer_pc, writer_df, fnVars,
                   sumVars,
                   connVars>>

ReaderReturn ==
    /\ reader_pc = "done"
    /\ reader_obs' = None
    /\ reader_pc' = "idle"
    /\ UNCHANGED <<pc, classVars, transVars, execVars, routeVars, dataVars, read_data,
                   writer_pc, writer_df, fnVars,
                   sumVars,
                   connVars>>

NextReplace ==
    \/ \E d \in WrittenDatasets : WriterStart(d)
    \/ WriterDrop
    \/ WriterCreate
    \/ WriterInsert
    \/ WriterReturn
    \/ ReaderCheck
    \/ ReaderQuery
    \/ ReaderReturn

SpecReplace == Init /\ [][NextReplace]_vars

\* C18 (as written): while store_dataframe replaces the table, every
\* execute_sql that starts once a table has been stored reads a complete
\* table, the old one or the new one: it never finds the table missing,
\* never reads a table whose rows are not inserted yet, and never fails
\* after its existence check passed.
C18_ReadsSeeOldOrNew ==
    (reader_pc = "done" /\ Val(reader_obs).had_table) =>
        LET r == Val(Val(reader_obs).result) IN
        /\ r.error = None
        /\ r.result # None
        /\ Val(r.result).filled

---------------------------------------------------------------------------
(* The metric engine: config.METRIC_FORMULAS, compute_metric and           *)
(* add_row_level_metrics, each applied to one ratio.  A quotient is kept   *)
(* as its numerator and denominator; compute_metric's round(result, 2) is  *)
(* not applied to it.                                                      *)
MaxValue == 2

\* a column's sum, or a row's value
Values == -1..MaxValue

\* a mapped column's value, or None when the column is not mapped
MaybeValues == {None} \cup {Some(v) : v \in Values}

Absent == [kind |-> "absent"]
Undefined == [kind |-> "NA"]
Number(n, d) == [kind |-> "number", num |-> n, den |-> d]
Zero == Number(0, 1)

\* METRIC_FORMULAS: name, numerator column, denominator column, factor
METRIC_FORMULAS ==
    { [name |-> "CTR", num |-> "clicks", den |-> "impressions", factor |-> 100],
      [name |-> "CPC", num |-> "cost", den |-> "clicks", factor |-> 1],
      [name |-> "CPA", num |-> "cost", den |-> "conversions", factor |-> 1],
      [name |-> "ROAS", num |-> "revenue", den |-> "cost", factor |-> 1],
      [name |-> "CVR", num |-> "conversions", den |-> "clicks", factor |-> 100] }

\* the lambda of a formula: (num / den * factor) if den > 0 else 0
formula(f, n, d) == IF d > 0 THEN Number(n * f.factor, d) ELSE Zero

\* compute_metric on the columns' sums: None when a required column is not
\* mapped, otherwise the formula's value
compute_metric(f, n, d) ==
    IF n = None \/ d = None THEN Absent
    ELSE formula(f, Val(n), Val(d))

\* one row of add_row_level_metrics: no metric column unless both columns
\* are there; the denominator's 0 replaced by pd.NA, then the division
add_row_level_metrics(f, n, d) ==
    IF n = None \/ d = None THEN Absent
    ELSE IF Val(d) = 0 THEN Undefined
    ELSE Number(Val(n) * f.factor, Val(d))

\* SQLite's / on two whole numbers: the quotient cut towards 0
sqlite_int_div(n, d) == IF n >= 0 THEN n \div d ELSE 0 - ((0 - n) \div d)

\* a ratio column of get_campaign_performance_summary for one campaign whose
\* sums are whole numbers: CASE WHEN SUM(den) > 0 THEN SUM(num) / SUM(den) END,
\* with * 100.0 before the division for the percentages
sql_case_ratio(f, n, d) ==
    IF n = None \/ d = None THEN Absent
    ELSE IF Val(d) > 0
         THEN IF f.factor = 1 THEN Number(sqlite_int_div(Val(n), Val(d)), 1)
              ELSE Number(Val(n) * f.factor, Val(d))
    ELSE Undefined

\* the same column in the fallback of get_sql_campaign_breakdown:
\* num.div(den.replace({0: pd.NA})), .mul(100) for the percentages
fallback_ratio(f, n, d) ==
    IF n = None \/ d = None THEN Absent
    ELSE IF Val(d) = 0 THEN Undefined
    ELSE Number(Val(n) * f.factor, Val(d))

ComputeMetric(f, n, d) ==
    /\ fn_call = None
    /\ fn_call' = Some([fn |-> "compute_metric", metric |-> f.name, num |-> n, den |-> d])
    /\ fn_result' = Some(compute_metric(f, n, d))
    /\ UNCHANGED <<pc, classVars, transVars, execVars, routeVars, dataVars, read_data,
                   concVars, sumVars,
                   connVars>>

AddRowLevelMetrics(f, n, d) ==
    /\ fn_call = None
    /\ fn_call' = Some([fn |-> "add_row_level_metrics", metric |-> f.name, num |-> n, den |-> d])
    /\ fn_result' = Some(add_row_level_metrics(f, n, d))
    /\ UNCHANGED <<pc, classVars, transVars, execVars, routeVars, dataVars, read_data,
                   concVars, sumVars,
                   connVars>>

StoreRatio(f, n, d) ==
    /\ fn_call = None
    /\ fn_call' = Some([fn |-> "sql_case_ratio", metric |-> f.name, num |-> n, den |-> d])
    /\ fn_result' = Some(sql_case_ratio(f, n, d))
    /\ UNCHANGED <<pc, classVars, transVars, execVars, routeVars, dataVars, read_data,
                   concVars, sumVars,
                   connVars>>

FallbackRatio(f, n, d) ==
    /\ fn_call = None
    /\ fn_call' = Some([fn |-> "fallback_ratio", metric |-> f.name, num |-> n, den |-> d])
    /\ fn_result' = Some(fallback_ratio(f, n, d))
    /\ UNCHANGED <<pc, classVars, transVars, execVars, routeVars, dataVars, read_data,
                   concVars, sumVars,
                   connVars>>

MetricReturn ==
    /\ fn_call # None
    /\ fn_call' = None
    /\ fn_result' = None
    /\ UNCHANGED <<pc, classVars, transVars, execVars, routeVars, dataVars, read_data,
                   concVars, sumVars,
                   connVars>>

NextMetrics ==
    \/ \E f \in METRIC_FORMULAS, n \in MaybeValues, d \in MaybeValues : ComputeMetric(f, n, d)
    \/ \E f \in METRIC_FORMULAS, n \in MaybeValues, d \in MaybeValues :
          AddRowLevelMetrics(f, n, d)
    \/ \E f \in METRIC_FORMULAS, n \in MaybeValues, d \in MaybeValues : StoreRatio(f, n, d)
    \/ \E f \in METRIC_FORMULAS, n \in MaybeValues, d \in MaybeValues : FallbackRatio(f, n, d)
    \/ MetricReturn

SpecMetrics == Init /\ [][NextMetrics]_vars

\* C19 (as written): for a row of add_row_level_metrics and for an aggregate
\* of compute_metric, a ratio whose denominator is absent or not above 0 is
\* absent or undefined in the output, never a number.
C19_ZeroGuardedRatios ==
    fn_call # None =>
        LET c == Val(fn_call) IN
        (c.den = None \/ Val(c.den) <= 0) => Val(fn_result).kind \in {"absent", "NA"}

SameValue(a, b) ==
    IF a.kind = "number" /\ b.kind = "number" THEN a.num * b.den = b.num * a.den
    ELSE a.kind = b.kind

\* C22 (as written): a derived ratio of the in-process breakdown fallback is
\* the ratio the store path gives for the same sums, absent where that one is
\* absent.
C22_FallbackRatiosMatchStore ==
    (fn_call # None /\ Val(fn_call).fn = "fallback_ratio") =>
        LET c == Val(fn_call)
            f == CHOOSE g \in METRIC_FORMULAS : g.name = c.metric
        IN SameValue(Val(fn_result), sql_case_ratio(f, c.num, c.den))

---------------------------------------------------------------------------
(* The campaign breakdown of the context summary: the store path           *)
(* (CampaignDatabase.get_campaign_performance_summary) and the in-process  *)
(* fallback of get_sql_campaign_breakdown, on campaigns 1..n whose column  *)
(* sums differ from each other within every column.                        *)
MaxCampaigns == 26

\* limit=25 of create_compact_summary's call
ROW_LIMIT == 25

MetricColumns == {"impressions", "clicks", "cost", "conversions", "revenue"}

\* the mappings: every set of metric columns that are mapped and in the data
Mappings == SUBSET MetricColumns

CampaignCounts == {0, 3, MaxCampaigns}

\* the sum of a column for campaign i: a different permutation per column
ColumnStride(col) ==
    CASE col = "cost" -> 1
      [] col = "revenue" -> 2
      [] col = "conversions" -> 3
      [] col = "clicks" -> 5
      [] col = "impressions" -> 7

column_sum(col, i) == (i * ColumnStride(col)) % 29

RECURSIVE sort_values_desc(_, _)
\* ORDER BY col DESC / sort_values(by=col, ascending=False) of a set of campaigns
sort_values_desc(S, col) ==
    IF S = {} THEN <<>>
    ELSE LET top == CHOOSE i \in S : \A j \in S : column_sum(col, j) <= column_sum(col, i)
         IN <<top>> \o sort_values_desc(S \ {top}, col)

RECURSIVE group_order(_)
\* GROUP BY / groupby without a sort: the campaigns in the order of their names
group_order(S) ==
    IF S = {} THEN <<>>
    ELSE LET first == CHOOSE i \in S : \A j \in S : i <= j
         IN <<first>> \o group_order(S \ {first})

\* head(limit) / LIMIT limit
head(rows, limit) == SubSeq(rows, 1, IF Len(rows) < limit THEN Len(rows) ELSE limit)

first_available(candidates, mapping) ==
    LET found == {k \in 1..Len(candidates) : candidates[k] \in mapping}
    IN IF found = {} THEN None
       ELSE Some(candidates[CHOOSE k \in found : \A l \in found : k <= l])

\* the ORDER BY chain of get_campaign_performance_summary
store_order_by(mapping) ==
    first_available(<<"cost", "revenue", "clicks", "impressions">>, mapping)

\* sort_col of get_sql_campaign_breakdown's fallback
fallback_sort_col(mapping) ==
    first_available(<<"cost", "revenue", "conversions", "clicks", "impressions">>, mapping)

ordered(S, sort_col) ==
    IF sort_col = None THEN group_order(S) ELSE sort_values_desc(S, Val(sort_col))

\* get_campaign_performance_summary(column_mapping, limit)
get_campaign_performance_summary(mapping, n, limit) ==
    LET rows == ordered(1..n, store_order_by(mapping))
    IN IF limit > 0 THEN head(rows, limit) ELSE rows

\* the pandas fallback of get_sql_campaign_breakdown: None without a metric
\* column to aggregate
breakdown_fallback(mapping, n, limit) ==
    IF mapping = {} THEN None
    ELSE Some(head(ordered(1..n, fallback_sort_col(mapping)), limit))

BreakdownStore(mapping, n) ==
    /\ fn_call = None
    /\ fn_call' = Some([fn |-> "store", mapping |-> mapping, campaigns |-> n])
    /\ fn_result' = Some(get_campaign_performance_summary(mapping, n, ROW_LIMIT))
    /\ UNCHANGED <<pc, classVars, transVars, execVars, routeVars, dataVars, read_data,
                   concVars, sumVars,
                   connVars>>

BreakdownFallback(mapping, n) ==
    /\ fn_call = None
    /\ fn_call' = Some([fn |-> "fallback", mapping |-> mapping, campaigns |-> n])
    /\ fn_result' = breakdown_fallback(mapping, n, ROW_LIMIT)
    /\ UNCHANGED <<pc, classVars, transVars, execVars, routeVars, dataVars, read_data,
                   concVars, sumVars,
                   connVars>>

BreakdownReturn ==
    /\ fn_call # None
    /\ fn_call' = None
    /\ fn_result' = None
    /\ UNCHANGED <<pc, classVars, transVars, execVars, routeVars, dataVars, read_data,
                   concVars, sumVars,
                   connVars>>

NextBreakdown ==
    \/ \E mapping \in Mappings, n \in CampaignCounts : BreakdownStore(mapping, n)
    \/ \E mapping \in Mappings, n \in CampaignCounts : BreakdownFallback(mapping, n)
    \/ BreakdownReturn

SpecBreakdown == Init /\ [][NextBreakdown]_vars

\* the contract's priority, written without the code's operators
ContractSortColumn(mapping) ==
    IF "cost" \in mapping THEN Some("cost")
    ELSE IF "revenue" \in mapping THEN Some("revenue")
    ELSE IF "clicks" \in mapping THEN Some("clicks")
    ELSE IF "impressions" \in mapping THEN Some("impressions")
    ELSE None

NonIncreasing(rows, col) ==
    \A k \in 1..(Len(rows) - 1) : column_sum(col, rows[k]) >= column_sum(col, rows[k + 1])

\* C20 (as written): a breakdown produced by the store path or by the
\* in-process fallback is ordered by non-increasing value of the first
\* available of cost, revenue, clicks, impressions, and has at most 25
\* campaigns.
C20_BreakdownOrderedAndLimited ==
    (fn_call # None /\ fn_result # None) =>
        LET c == Val(fn_call)
            rows == Val(fn_result)
            col == ContractSortColumn(c.mapping)
        IN /\ Len(rows) <= ROW_LIMIT
           /\ col # None => NonIncreasing(rows, Val(col))

---------------------------------------------------------------------------
(* The context summary: create_compact_summary and the helpers it calls,   *)
(* on a dataset of campaigns 1..n (column sums as above), a date column    *)
(* and metric columns that hold numbers or text.                           *)
MaxSummaryCampaigns == 7

\* top_n=5 of create_compact_summary's call of get_campaign_summary
TOP_N == 5

SummaryCampaignCounts == {0, 3, MaxSummaryCampaigns}

\* what read_csv made of the date column: there is none, date texts, whole
\* numbers, or texts that are no dates; "datetime" once it was converted
DateKinds == {"none", "text", "numbers", "garbage"}

\* the days the rows of a dataset with rows are dated
DateValues == {3, 7}

DateColumn(kind, n) ==
    [kind |-> kind, days |-> IF kind = "none" \/ n = 0 THEN {} ELSE DateValues]

\* the metric columns of a dataset that hold text such as $100
TextColumnSets == {{}, {"cost"}, {"clicks"}}

SummaryDatasets ==
    { [campaigns |-> n, date |-> DateColumn(k, n), text |-> t] :
        n \in SummaryCampaignCounts, k \in DateKinds, t \in TextColumnSets }

\* detect_standard_columns maps date exactly when the dataset has the column
SummaryMappings(d) ==
    { [metrics |-> ms, campaign_name |-> c, date |-> d.date.kind # "none"] :
        ms \in Mappings, c \in BOOLEAN }

\* the store as get_campaign_performance_summary's execute_sql finds it
SummaryStores == {"ready", "failing"}

ErrCampaignColumnMissing == "Campaign name column is missing; cannot build campaign summary."
ErrCouldNotAggregate == "Could not aggregate campaign performance (missing campaign column)."

\* a column holds text in some row
is_text(d, col) == col \in d.text /\ d.campaigns > 0

RECURSIVE column_total(_, _)
\* df[col].sum() of a numeric column
column_total(col, n) == IF n = 0 THEN 0 ELSE column_sum(col, n) + column_total(col, n - 1)

to_datetime_Reparse(col) ==
    IF col.kind = "garbage" THEN None
    ELSE IF col.kind \in {"numbers", "datetime"}
         THEN Some([kind |-> "datetime", days |-> IF col.days = {} THEN {} ELSE {0}])
    ELSE Some([kind |-> "datetime", days |-> col.days])

\* pd.to_datetime of a column: texts are parsed, whole numbers are counted
\* from the epoch in nanoseconds (day 0), datetimes stay, other texts raise
to_datetime(col) ==
    IF col.kind = "garbage" THEN None
    ELSE IF col.kind = "numbers"
         THEN Some([kind |-> "datetime", days |-> IF col.days = {} THEN {} ELSE {0}])
    ELSE Some([kind |-> "datetime", days |-> col.days])

SetMin(S) == CHOOSE x \in S : \A y \in S : x <= y
SetMax(S) == CHOOSE x \in S : \A y \in S : y <= x

\* get_date_range: the dataset as it leaves it, and its return value
get_date_range(d, mapping) ==
    IF ~mapping.date THEN [df |-> d, range |-> None]
    ELSE LET conv == to_datetime(d.date) IN
         IF conv = None THEN [df |-> d, range |-> None]
         ELSE LET col == Val(conv) IN
              [df |-> [d EXCEPT !.date = col],
               range |-> IF col.days = {} THEN None
                         ELSE Some([start |-> SetMin(col.days), end |-> SetMax(col.days)])]

\* get_aggregate_metrics: float(sum) of every mapped metric column, 0.0
\* where that raises
get_aggregate_metrics(d, mapping) ==
    [col \in mapping.metrics |->
        IF is_text(d, col) THEN 0 ELSE column_total(col, d.campaigns)]

compute_metric_of_ZeroWhenUnmapped(f, d, mapping) ==
    IF f.num \notin mapping.metrics \/ f.den \notin mapping.metrics THEN Zero
    ELSE IF is_text(d, f.den) THEN Absent
    ELSE IF is_text(d, f.num)
         THEN IF column_total(f.den, d.campaigns) > 0 THEN Absent ELSE Zero
    ELSE compute_metric(f, Some(column_total(f.num, d.campaigns)),
                        Some(column_total(f.den, d.campaigns)))

\* compute_metric on the dataset: None when a required column is not
\* mapped or when the formula raises on a text sum
compute_metric_of(f, d, mapping) ==
    IF f.num \notin mapping.metrics \/ f.den \notin mapping.metrics THEN Absent
    ELSE IF is_text(d, f.den) THEN Absent
    ELSE IF is_text(d, f.num)
         THEN IF column_total(f.den, d.campaigns) > 0 THEN Absent ELSE Zero
    ELSE compute_metric(f, Some(column_total(f.num, d.campaigns)),
                        Some(column_total(f.den, d.campaigns)))

\* compute_all_metrics, and the summary's filter: the metrics that are not None
summary_metrics(d, mapping) ==
    LET present == {f \in METRIC_FORMULAS : compute_metric_of(f, d, mapping) # Absent}
    IN [name \in {f.name : f \in present} |->
          compute_metric_of(CHOOSE f \in present : f.name = name, d, mapping)]

\* get_campaign_summary: the first top_n groups of the groupby, None when
\* float() raises on a text sum
get_campaign_summary(d, mapping, top_n) ==
    IF ~mapping.campaign_name \/ mapping.metrics = {} THEN Some(<<>>)
    ELSE IF \E col \in mapping.metrics : is_text(d, col) THEN None
    ELSE Some(head(group_order(1..d.campaigns), top_n))

\* get_all_campaign_names
get_all_campaign_names(d, mapping) ==
    IF ~mapping.campaign_name THEN <<>> ELSE group_order(1..d.campaigns)

get_sql_campaign_breakdown_QueryFirst(d, mapping, store, limit) ==
    LET sql == IF store = "ready" /\ mapping.campaign_name
                  THEN [rows |-> Some(get_campaign_performance_summary(
                                          mapping.metrics, d.campaigns, limit)),
                        error |-> None, queries |-> 1]
               ELSE [rows |-> None, error |-> Some(ErrSqlExecution), queries |-> 1]
    IN IF sql.rows # None THEN sql
       ELSE IF mapping.campaign_name /\ mapping.metrics # {}
            THEN [sql EXCEPT !.rows = breakdown_fallback(mapping.metrics, d.campaigns, limit)]
       ELSE sql

\* get_sql_campaign_breakdown: the rows or None, the error or None, and the
\* queries the store was asked to run
get_sql_campaign_breakdown(d, mapping, store, limit) ==
    LET sql == IF ~mapping.campaign_name
                  THEN [rows |-> None, error |-> Some(ErrCampaignColumnMissing), queries |-> 0]
               ELSE IF store = "ready"
                  THEN [rows |-> Some(get_campaign_performance_summary(
                                          mapping.metrics, d.campaigns, limit)),
                        error |-> None, queries |-> 1]
               ELSE [rows |-> None, error |-> Some(ErrSqlExecution), queries |-> 1]
    IN IF sql.rows # None THEN sql
       ELSE IF mapping.campaign_name /\ mapping.metrics # {}
            THEN [sql EXCEPT !.rows = breakdown_fallback(mapping.metrics, d.campaigns, limit)]
       ELSE [sql EXCEPT !.error = IF sql.error # None THEN sql.error
                                   ELSE Some(ErrCouldNotAggregate)]

\* create_compact_summary: the dataset as it leaves it, the summary it
\* returns (None when a helper raises), the store queries it made
create_compact_summary(d, mapping, store) ==
    LET top == get_campaign_summary(d, mapping, TOP_N)
        dated == get_date_range(d, mapping)
        breakdown == get_sql_campaign_breakdown(dated.df, mapping, store, ROW_LIMIT)
    IN IF top = None THEN [df |-> d, summary |-> None, queries |-> 0]
       ELSE [df |-> dated.df,
             summary |-> Some([totals |-> get_aggregate_metrics(d, mapping),
                               metrics |-> summary_metrics(d, mapping),
                               all_campaign_names |-> get_all_campaign_names(d, mapping),
                               top_campaigns |-> Val(top),
                               date_range |-> dated.range,
                               total_rows |-> d.campaigns,
                               campaign_breakdown |->
                                   IF breakdown.rows # None /\ Val(breakdown.rows) # <<>>
                                   THEN breakdown.rows ELSE Some(<<>>),
                               campaign_breakdown_error |-> breakdown.error]),
             queries |-> breakdown.queries]

SummaryStart(d, mapping, store) ==
    /\ summary_args = None
    /\ summary_args' = Some([df |-> d, column_mapping |-> mapping, store |-> store])
    /\ summary_df' = Some(d)
    /\ summaries' = <<>>
    /\ UNCHANGED <<pc, classVars, transVars, execVars, routeVars, dataVars, read_data,
                   concVars, fnVars,
                   connVars>>

CreateCompactSummary ==
    /\ summary_args # None
    /\ Len(summaries) < 2
    /\ LET r == create_compact_summary(Val(summary_df), Val(summary_args).column_mapping,
                                       Val(summary_args).store)
       IN /\ summary_df' = Some(r.df)
          /\ summaries' = Append(summaries, [summary |-> r.summary, queries |-> r.queries])
    /\ UNCHANGED <<pc, classVars, transVars, execVars, routeVars, dataVars, read_data,
                   concVars, fnVars, summary_args,
                   connVars>>

SummaryReturn ==
    /\ summary_args # None
    /\ Len(summaries) >= 1
    /\ summary_args' = None
    /\ summary_df' = None
    /\ summaries' = <<>>
    /\ UNCHANGED <<pc, classVars, transVars, execVars, routeVars, dataVars, read_data,
                   concVars, fnVars,
                   connVars>>

NextSummary ==
    \/ \E d \in SummaryDatasets, store \in SummaryStores :
          \E mapping \in SummaryMappings(d) : SummaryStart(d, mapping, store)
    \/ CreateCompactSummary
    \/ SummaryReturn

SpecSummary == Init /\ [][NextSummary]_vars

\* C21: two calls of create_compact_summary on the same dataset, column
\* mapping and store return identical summaries.
C21_SummaryDeterministic ==
    Len(summaries) = 2 => summaries[1].summary = summaries[2].summary

\* a second summary was built from a dataset whose date texts the first call
\* had parsed
C21_Witness ==
    /\ Len(summaries) = 2
    /\ summaries[2].summary # None
    /\ Val(summaries[2].summary).date_range # None
    /\ Val(summary_args).df.date.kind = "text"
    /\ Val(summary_df).date.kind = "datetime"

\* C28 (as written): building a context summary leaves the dataset passed
\* to create_compact_summary as it was: no column is replaced or retyped.
C28_SummaryLeavesDataset ==
    (summary_args # None /\ Len(summaries) >= 1) => Val(summary_df) = Val(summary_args).df

\* the summaries returned so far that are summaries (no helper raised)
ReturnedSummaries == {Val(summaries[k].summary) : k \in {j \in 1..Len(summaries) : summaries[j].summary # None}}

SummaryMapping == Val(summary_args).column_mapping
SummaryDataset == Val(summary_args).df

SeqRange(q) == {q[k] : k \in 1..Len(q)}

\* the column the contract ranks campaigns by
ContractTopColumn(ms) ==
    IF "cost" \in ms THEN Some("cost")
    ELSE IF "revenue" \in ms THEN Some("revenue")
    ELSE IF "conversions" \in ms THEN Some("conversions")
    ELSE IF "clicks" \in ms THEN Some("clicks")
    ELSE IF "impressions" \in ms THEN Some("impressions")
    ELSE None

\* C23 (as written): top_campaigns holds at most 5 campaigns, and no campaign
\* left out of it has a larger value of the first available of cost, revenue,
\* conversions, clicks, impressions than a campaign in it.
C23_TopCampaignsAreLargest ==
    \A sm \in ReturnedSummaries :
        LET top == SeqRange(sm.top_campaigns)
            col == ContractTopColumn(SummaryMapping.metrics)
        IN /\ Len(sm.top_campaigns) <= TOP_N
           /\ (SummaryMapping.campaign_name /\ col # None) =>
                 /\ Cardinality(top) = IF SummaryDataset.campaigns < TOP_N
                                       THEN SummaryDataset.campaigns ELSE TOP_N
                 /\ \A i \in top, j \in (1..SummaryDataset.campaigns) \ top :
                        column_sum(Val(col), i) >= column_sum(Val(col), j)

MetricMapped(f, ms) == f.num \in ms /\ f.den \in ms
MetricOnText(f, d) == is_text(d, f.num) \/ is_text(d, f.den)

C29_BreakdownWithoutCampaignColumn ==
    \A k \in 1..Len(summaries) :
        summaries[k].summary # None =>
            LET sm == Val(summaries[k].summary) IN
            /\ sm.campaign_breakdown # None
            /\ ~SummaryMapping.campaign_name =>
                  /\ summaries[k].queries = 0
                  /\ sm.campaign_breakdown = Some(<<>>)
                  /\ sm.campaign_breakdown_error # None
            /\ (SummaryMapping.campaign_name /\ Val(summary_args).store = "ready") =>
                  sm.campaign_breakdown_error = None

\* a summary built without a campaign_name although metric columns are
\* mapped and the store is ready
C29_Witness ==
    /\ Len(summaries) >= 1
    /\ summaries[1].summary # None
    /\ ~SummaryMapping.campaign_name
    /\ SummaryMapping.metrics # {}
    /\ SummaryDataset.campaigns > 0
    /\ Val(summary_args).store = "ready"
    /\ Val(summaries[1].summary).campaign_breakdown_error = Some(ErrCampaignColumnMissing)

---------------------------------------------------------------------------
(* The connections and engines of the store operations: what each          *)
(* operation of CampaignDatabase opens (sqlite3.connect, create_engine)    *)
(* and what it closes or disposes before it returns, by the place where    *)
(* it stops.                                                               *)
MaxUnreleased == 3

\* where store_dataframe stops: an exception at that call, the empty
\* DataFrame, a failed verification, or the end
StoreStops ==
    <<"connect", "add_row_level_metrics", "empty", "create_engine", "to_sql",
      "verify_count", "verify_table", "no_table", "zero_rows", "none">>

StopIndex(stop) == CHOOSE k \in 1..Len(StoreStops) : StoreStops[k] = stop

\* the operation got past the place named
Past(stop, place) == StopIndex(stop) > StopIndex(place)

\* store_dataframe: the resources it opened, those it closed or disposed,
\* and whether self.conn is a connection when it returns
store_dataframe_resources(sa, conn, stop) ==
    LET connected == IF conn \/ stop = "connect" THEN {} ELSE {"self.conn"}
    IN IF sa
       THEN [opened |-> connected
                        \cup (IF Past(stop, "create_engine") THEN {"engine"} ELSE {})
                        \cup (IF Past(stop, "to_sql") THEN {"verify_engine"} ELSE {})
                        \cup (IF Past(stop, "verify_count") THEN {"verify_engine_2"} ELSE {}),
             released |-> (IF Past(stop, "to_sql") THEN {"engine"} ELSE {})
                          \cup (IF Past(stop, "verify_count") THEN {"verify_engine"} ELSE {})
                          \cup (IF Past(stop, "verify_table") THEN {"verify_engine_2"} ELSE {}),
             conn |-> IF Past(stop, "to_sql") THEN FALSE ELSE (conn \/ stop # "connect"),
             value |-> stop = "none"]
       ELSE [opened |-> connected
                        \cup (IF Past(stop, "to_sql") THEN {"fresh_conn"} ELSE {})
                        \cup (IF Past(stop, "verify_count") THEN {"fresh_conn_2"} ELSE {}),
             released |-> (IF Past(stop, "verify_count") THEN {"fresh_conn"} ELSE {})
                          \cup (IF Past(stop, "verify_table") THEN {"fresh_conn_2"} ELSE {}),
             conn |-> conn \/ stop # "connect",
             value |-> stop = "none"]

\* the stops store_dataframe has in a build
StoreStopsOf(sa, conn) ==
    {StoreStops[k] : k \in 1..Len(StoreStops)}
        \ ((IF sa THEN {} ELSE {"create_engine"}) \cup (IF conn THEN {"connect"} ELSE {}))

\* where execute_sql, get_table_info and get_sample_data stop: an exception
\* at create_engine / sqlite3.connect, at the table check or at the query,
\* the return for a missing table, or the end
ReadStops == {"open", "check", "no_table", "query", "none"}

ReadOps == {"execute_sql", "get_table_info", "get_sample_data"}

\* the three reading operations: one engine or connection, disposed or
\* closed on the two return paths, not in the except
read_resources(sa, stop) ==
    LET name == IF sa THEN "engine" ELSE "fresh_conn"
    IN [opened |-> IF stop = "open" THEN {} ELSE {name},
        released |-> IF stop \in {"no_table", "none"} THEN {name} ELSE {},
        value |-> stop = "none"]

\* the resources an operation opened, did not release, and no longer holds
LetGo(r, held) == Cardinality((r.opened \ r.released) \ (IF held THEN {"self.conn"} ELSE {}))

\* database.py is imported: SQLAlchemy is there or not
ImportDatabase(sa) ==
    /\ sqlalchemy_available = None
    /\ sqlalchemy_available' = Some(sa)
    /\ UNCHANGED <<self_conn, unreleased, store_op,
                   pc, classVars, transVars, execVars, routeVars, dataVars, read_data,
                   concVars, fnVars, sumVars>>

StoreDataframe(stop) ==
    /\ sqlalchemy_available # None
    /\ stop \in StoreStopsOf(Val(sqlalchemy_available), self_conn)
    /\ LET r == store_dataframe_resources(Val(sqlalchemy_available), self_conn, stop)
           dropped == IF self_conn /\ ~r.conn THEN 1 ELSE 0
       IN /\ unreleased + LetGo(r, r.conn) + dropped <= MaxUnreleased
          /\ unreleased' = unreleased + LetGo(r, r.conn) + dropped
          /\ self_conn' = r.conn
          /\ store_op' = Some([op |-> "store_dataframe", stop |-> stop,
                               opened |-> r.opened, released |-> r.released])
    /\ UNCHANGED <<sqlalchemy_available,
                   pc, classVars, transVars, execVars, routeVars, dataVars, read_data,
                   concVars, fnVars, sumVars>>

ReadOperation(op, stop) ==
    /\ sqlalchemy_available # None
    /\ LET r == read_resources(Val(sqlalchemy_available), stop)
       IN /\ unreleased + LetGo(r, FALSE) <= MaxUnreleased
          /\ unreleased' = unreleased + LetGo(r, FALSE)
          /\ store_op' = Some([op |-> op, stop |-> stop,
                               opened |-> r.opened, released |-> r.released])
    /\ UNCHANGED <<sqlalchemy_available, self_conn,
                   pc, classVars, transVars, execVars, routeVars, dataVars, read_data,
                   concVars, fnVars, sumVars>>

NextStore ==
    \/ \E sa \in BOOLEAN : ImportDatabase(sa)
    \/ \E stop \in {StoreStops[k] : k \in 1..Len(StoreStops)} : StoreDataframe(stop)
    \/ \E op \in ReadOps, stop \in ReadStops : ReadOperation(op, stop)

SpecStore == Init /\ [][NextStore]_vars

\* C25 (as written): every store operation has closed or disposed every
\* connection and engine it opened when it returns, on every exit path.
C25_OperationsReleaseResources ==
    store_op # None => Val(store_op).opened \subseteq Val(store_op).released

---------------------------------------------------------------------------
(* The return values of execute_sql_query and the order of query_with_sql. *)

\* C26: execute_sql_query returns exactly one component that is not None,
\* (result, None) or (None, error), never both and never neither; once the
\* fallback ran, what it returns is the fallback's result or error, the
\* store's error is not in it.
C26_OneComponentReturned ==
    exec_result # None =>
        LET r == Val(exec_result) IN
        /\ (r.result # None) # (r.error # None)
        /\ fallback_ran =>
              /\ r.result # None => r.error = None
              /\ r.result = None =>
                    r.error \in {Some(ErrPandasqlUnavailable), Some(ErrSqlExecution)}
              /\ Val(db_result).error = Some(ErrTableMissing) =>
                    r.error # Val(db_result).error

\* the store reported the missing table, pandasql was not installed, and
\* execute_sql_query returned the fallback's error alone
C26_Witness ==
    /\ pc = "sql_finish"
    /\ fallback_ran
    /\ db_result = Some(Pair(None, Some(ErrTableMissing)))
    /\ exec_result = Some(Pair(None, Some(ErrPandasqlUnavailable)))

\* the translated query has been handed to an engine
QueryExecutionStarted == executed # {} \/ db_result # None \/ fallback_ran \/ exec_result # None

\* C27 (amended): execute_sql_query is called only after the translator
\* returned a query; when the translator returns no query, neither the
\* store nor the fallback is handed a translated query and query_with_sql
\* returns (None, 'Could not generate SQL query from question').  Before
\* the translator is called the store runs the table check, the schema
\* query and the sample query of the prompt, nothing else.
C27_NoQueryNoExecution ==
    /\ QueryExecutionStarted => (sql_query # None /\ pc \in {"fallback", "sql_finish", "sql_done"})
    /\ (pc = "sql_done" /\ sql_query = None) =>
          /\ ~QueryExecutionStarted
          /\ sql_result = Some(Pair(None, Some(ErrCouldNotGenerate)))
    /\ prompt_reads \subseteq {StmtTableCheck, StmtTableInfo, StmtSample}
    /\ pc = "translate" => prompt_reads = {}

\* the service answered with a text that is no query: query_with_sql
\* returned without an execution, after the store had read the sample rows
C27_Witness ==
    /\ pc = "sql_done"
    /\ response = Some(<<TokDrop>>)
    /\ sql_query = None
    /\ ~QueryExecutionStarted
    /\ StmtSample \in prompt_reads

\* C27 (as written): when the translator returns no query, the store has
\* executed nothing for the structured path.
C27_StoreIdleWithoutQuery ==
    (pc = "sql_done" /\ sql_query = None) => (prompt_reads = {} /\ ~QueryExecutionStarted)

=============================================================================
